---- MODULE Spec2Model ----
(***************************************************************************)
(* A model of GoE2E-DocSyncer's command synthesizer, document converter    *)
(* and marker-state extractor.                                             *)
(*                                                                         *)
(* Text is modelled as a sequence of tokens.  Command text, timeouts and   *)
(* intervals are sequences of characters (one-character strings; a word    *)
(* without any character the code looks at is one token).  Generated Go    *)
(* code is a sequence of code tokens cut so that every pattern the code    *)
(* searches for or replaces is a run of whole tokens: strings.Index,       *)
(* strings.Replace and strings.Contains are then the same operations on    *)
(* token sequences.                                                        *)
(***************************************************************************)
EXTENDS Integers, Sequences, FiniteSets, TLC

\* ------------------------------------------------------------------ bounds
\* Longest command text of the wrapper-composition specification.
MaxCmdLen == 2
\* Longest command body of the classification specification.
MaxBodyLen == 4
\* Largest retry count and largest expected exit code.
MaxRetry == 3
MaxExit == 2
\* Nodes of a document Parse walks, and Content Units of a document given
\* to Convert directly.
MaxNodes == 4
MaxBlocks == 3

\* --------------------------------------------------------- Go strings

\* A newline of the generated code together with the indentation after it.
NL == "\n\t"

IsSpace(c) == c \in {" ", "\t", "\n", "\r", NL}

MatchAt(s, p, i) ==
    /\ i + Len(p) - 1 <= Len(s)
    /\ \A j \in 1..Len(p) : s[i + j - 1] = p[j]

\* strings.Index, 1-based; 0 when p does not occur in s.
Index(s, p) ==
    LET hits == {i \in 1..(Len(s) - Len(p) + 1) : MatchAt(s, p, i)}
    IN  IF hits = {} THEN 0 ELSE CHOOSE i \in hits : \A k \in hits : i <= k

Contains(s, p) == Index(s, p) # 0

\* strings.Replace(s, old, new, 1)
ReplaceFirst(s, old, new) ==
    LET i == Index(s, old)
    IN  IF i = 0 THEN s
        ELSE SubSeq(s, 1, i - 1) \o new \o SubSeq(s, i + Len(old), Len(s))

\* strings.Replace(s, old, new, -1), old not empty
RECURSIVE ReplaceAll(_, _, _)
ReplaceAll(s, old, new) ==
    LET i == Index(s, old)
    IN  IF i = 0 \/ Len(old) = 0 THEN s
        ELSE SubSeq(s, 1, i - 1) \o new
             \o ReplaceAll(SubSeq(s, i + Len(old), Len(s)), old, new)

RECURSIVE TrimLeft(_)
TrimLeft(s) ==
    IF Len(s) > 0 /\ IsSpace(s[1]) THEN TrimLeft(Tail(s)) ELSE s

RECURSIVE TrimRight(_)
TrimRight(s) ==
    IF Len(s) > 0 /\ IsSpace(s[Len(s)])
    THEN TrimRight(SubSeq(s, 1, Len(s) - 1)) ELSE s

\* strings.TrimSpace
TrimSpace(s) == TrimLeft(TrimRight(s))

HasSuffix(s, suf) ==
    Len(suf) <= Len(s) /\ SubSeq(s, Len(s) - Len(suf) + 1, Len(s)) = suf

TrimSuffix(s, suf) ==
    IF HasSuffix(s, suf) THEN SubSeq(s, 1, Len(s) - Len(suf)) ELSE s

\* strings.Split(s, "\n"): always at least one piece.
RECURSIVE SplitLines(_)
SplitLines(s) ==
    LET i == Index(s, <<"\n">>)
    IN  IF i = 0 THEN <<s>>
        ELSE <<SubSeq(s, 1, i - 1)>> \o SplitLines(SubSeq(s, i + 1, Len(s)))

\* strings.Join
RECURSIVE Join(_, _)
Join(parts, sep) ==
    IF Len(parts) = 0 THEN <<>>
    ELSE IF Len(parts) = 1 THEN parts[1]
    ELSE parts[1] \o sep \o Join(Tail(parts), sep)

\* One character inside a %q literal.
EscapeChar(c) ==
    CASE c = "\"" -> "\\\""
      [] c = "\\" -> "\\\\"
      [] c = "\n" -> "\\n"
      [] c = "\t" -> "\\t"
      [] OTHER -> c

\* fmt.Sprintf("%q", s): the literal's text between two quote tokens.
Quote(s) == <<"\"">> \o [i \in 1..Len(s) |-> EscapeChar(s[i])] \o <<"\"">>

\* fmt.Sprintf("%d", n)
Itoa(n) == ToString(n)

\* ------------------------------------------------- converter/command.go

\* The default assertion of the base scaffold.
AssertNoErr == <<"Expect(err).ToNot(HaveOccurred(), ", "string(output)", ")">>

\* The assertion wrapWithRetry emits after its loop.
AssertLastErr ==
    <<"Expect(lastErr).ToNot(HaveOccurred(), ", "string(lastOutput)", ")">>

\* The text shared by generateSimpleCommand and generateShellCommand.
Scaffold(args) ==
    <<"cmd := ", "exec.Command(">> \o args
    \o <<")", NL, "output, err := cmd.CombinedOutput()", NL>> \o AssertNoErr

\* The backtick character (the module's lexer does not take it in a string).
Backtick == "BACKTICK"

complexChars ==
    << <<"|">>, <<"&", "&">>, <<"|", "|">>, <<";">>, <<">">>, <<"<">>,
       <<">", ">">>, <<"$", "(">>, <<Backtick>>, <<"&">> >>

isComplexCommand(cmd) ==
    \E k \in 1..Len(complexChars) : Contains(cmd, complexChars[k])

RECURSIVE shellSplitFrom(_, _, _, _, _, _)
shellSplitFrom(s, i, parts, current, inQuote, quoteChar) ==
    IF i > Len(s)
    THEN IF Len(current) > 0 THEN Append(parts, current) ELSE parts
    ELSE LET c == s[i] IN
         IF inQuote
         THEN IF c = quoteChar
              THEN shellSplitFrom(s, i + 1, parts, current, FALSE, quoteChar)
              ELSE shellSplitFrom(s, i + 1, parts, Append(current, c), TRUE,
                                  quoteChar)
         ELSE IF c = "\"" \/ c = "'"
              THEN shellSplitFrom(s, i + 1, parts, current, TRUE, c)
         ELSE IF c = " " \/ c = "\t"
              THEN IF Len(current) > 0
                   THEN shellSplitFrom(s, i + 1, Append(parts, current), <<>>,
                                       FALSE, quoteChar)
                   ELSE shellSplitFrom(s, i + 1, parts, current, FALSE,
                                       quoteChar)
         ELSE shellSplitFrom(s, i + 1, parts, Append(current, c), FALSE,
                             quoteChar)

shellSplit(s) == shellSplitFrom(s, 1, <<>>, <<>>, FALSE, "")

\* generateSimpleCommand passing the whole command as the one argument.
generateSimpleCommand_Unsplit(command) ==
    IF Len(shellSplit(command)) = 0 THEN <<>> ELSE Scaffold(Quote(command))

generateSimpleCommand(command) ==
    LET parts == shellSplit(command) IN
    IF Len(parts) = 0 THEN <<>>
    ELSE IF Len(parts) = 1 THEN Scaffold(Quote(parts[1]))
    ELSE Scaffold(Join([i \in 1..Len(parts) |-> Quote(parts[i])], <<", ">>))

generateShellCommand(command, shell, shellFlag) ==
    Scaffold(Quote(shell) \o <<", ">> \o Quote(shellFlag) \o <<", ">>
             \o Quote(command))

\* wrapWithTimeout leaving the invocation in its non-cancellable form.
wrapWithTimeout_KeepPlain(goCode, timeout) ==
    <<"dur, err := time.ParseDuration(">> \o Quote(timeout)
    \o <<")", NL, "Expect(err).ToNot(HaveOccurred())", NL,
         "ctx, cancel := context.WithTimeout(context.Background(), dur)", NL,
         "defer cancel()", NL>>
    \o goCode

wrapWithTimeout(goCode, timeout) ==
    <<"dur, err := time.ParseDuration(">> \o Quote(timeout)
    \o <<")", NL, "Expect(err).ToNot(HaveOccurred())", NL,
         "ctx, cancel := context.WithTimeout(context.Background(), dur)", NL,
         "defer cancel()", NL>>
    \o ReplaceFirst(goCode, <<"exec.Command(">>, <<"exec.CommandContext(ctx, ">>)

\* The conditional wrapWithExpectedExit puts in the place of AssertNoErr.
ExitCheck(expectedExit) ==
    <<"if ", "exitErr, ok := err.(*exec.ExitError)", "; ok {", NL,
      "Expect(exitErr.ExitCode()).To(Equal(", Itoa(expectedExit), "), ",
      "string(output)", ")", NL, "} else {", NL>>
    \o AssertNoErr \o <<NL, "}">>

wrapWithExpectedExit(goCode, expectedExit) ==
    ReplaceFirst(goCode, AssertNoErr, ExitCheck(expectedExit))

formatDuration(dur) ==
    LET d == TrimSpace(dur) IN
    IF HasSuffix(d, <<"m", "s">>)
    THEN TrimSuffix(d, <<"m", "s">>) \o <<" * time.Millisecond">>
    ELSE IF HasSuffix(d, <<"s">>)
    THEN TrimSuffix(d, <<"s">>) \o <<" * time.Second">>
    ELSE IF HasSuffix(d, <<"m">>)
    THEN TrimSuffix(d, <<"m">>) \o <<" * time.Minute">>
    ELSE <<"func() time.Duration { d, _ := time.ParseDuration(">> \o Quote(d)
         \o <<"); return d }()">>

\* The text both return statements of wrapWithRetry format.
RetryLoop(totalAttempts, body, retryCount, pause, final) ==
    <<"{", NL, "var lastOutput []byte", NL, "var lastErr error", NL,
      "for attempt := 1; attempt <= ", Itoa(totalAttempts), "; attempt++ {",
      NL>>
    \o body
    \o <<NL, "if lastErr == nil {", NL, "break", NL, "}", NL,
         "if attempt <= ", Itoa(retryCount), " {", NL, "time.Sleep(">>
    \o pause
    \o <<")", NL, "}", NL, "}", NL>>
    \o final
    \o <<NL, "}">>

\* wrapWithRetry pausing after the last attempt too.
wrapWithRetry_PauseAlways(goCode, retryCount, retryInterval) ==
    LET totalAttempts == retryCount + 1
        r1 == ReplaceFirst(goCode, <<"output, err := cmd.CombinedOutput()">>,
                           <<"lastOutput, lastErr = cmd.CombinedOutput()">>)
        r2 == ReplaceFirst(r1, AssertNoErr, <<>>)
        r3 == ReplaceFirst(r2, <<"Expect(err).ToNot(HaveOccurred(), ",
                                 "string(lastOutput)", ")">>, <<>>)
        hasExitCheck ==
            Contains(goCode, <<"exitErr, ok := err.(*exec.ExitError)">>)
        r4 == ReplaceFirst(r3,
                  <<"if ", "exitErr, ok := err.(*exec.ExitError)", "; ok {">>,
                  <<"if ", "exitErr, ok := lastErr.(*exec.ExitError)",
                    "; ok {">>)
        r5 == ReplaceAll(r4, <<"string(output)">>, <<"string(lastOutput)">>)
        exitCheckStart ==
            Index(r5, <<"if ", "exitErr, ok := lastErr.(*exec.ExitError)">>)
    IN  IF hasExitCheck /\ exitCheckStart # 0
        THEN RetryLoop(totalAttempts,
                       TrimSpace(SubSeq(r5, 1, exitCheckStart - 1)),
                       totalAttempts, formatDuration(retryInterval),
                       TrimSpace(SubSeq(r5, exitCheckStart, Len(r5))))
        ELSE RetryLoop(totalAttempts, TrimSpace(r3), totalAttempts,
                       formatDuration(retryInterval), AssertLastErr)

wrapWithRetry(goCode, retryCount, retryInterval) ==
    LET totalAttempts == retryCount + 1
        r1 == ReplaceFirst(goCode, <<"output, err := cmd.CombinedOutput()">>,
                           <<"lastOutput, lastErr = cmd.CombinedOutput()">>)
        r2 == ReplaceFirst(r1, AssertNoErr, <<>>)
        r3 == ReplaceFirst(r2, <<"Expect(err).ToNot(HaveOccurred(), ",
                                 "string(lastOutput)", ")">>, <<>>)
        hasExitCheck ==
            Contains(goCode, <<"exitErr, ok := err.(*exec.ExitError)">>)
        r4 == ReplaceFirst(r3,
                  <<"if ", "exitErr, ok := err.(*exec.ExitError)", "; ok {">>,
                  <<"if ", "exitErr, ok := lastErr.(*exec.ExitError)",
                    "; ok {">>)
        r5 == ReplaceAll(r4, <<"string(output)">>, <<"string(lastOutput)">>)
        exitCheckStart ==
            Index(r5, <<"if ", "exitErr, ok := lastErr.(*exec.ExitError)">>)
    IN  IF hasExitCheck /\ exitCheckStart # 0
        THEN RetryLoop(totalAttempts,
                       TrimSpace(SubSeq(r5, 1, exitCheckStart - 1)),
                       retryCount, formatDuration(retryInterval),
                       TrimSpace(SubSeq(r5, exitCheckStart, Len(r5))))
        ELSE RetryLoop(totalAttempts, TrimSpace(r3), retryCount,
                       formatDuration(retryInterval), AssertLastErr)

\* LogicalCommand joining the lines without trimming each.
LogicalCommand_RawLines(cmd) ==
    LET c == TrimSpace(cmd)
        cmdLines == SelectSeq(SplitLines(c), LAMBDA l : l # <<>>)
    IN  IF Len(SplitLines(c)) > 1 THEN Join(cmdLines, <<" ", "&", "&", " ">>)
        ELSE c

\* GenerateGoCode, lines 12-25: the one logical line of a command body.
LogicalCommand(cmd) ==
    LET c == TrimSpace(cmd)
        cmdLines == SplitLines(c)
        trimmed == SelectSeq([i \in 1..Len(cmdLines) |-> TrimSpace(cmdLines[i])],
                             LAMBDA l : l # <<>>)
    IN  IF Len(cmdLines) > 1 THEN Join(trimmed, <<" ", "&", "&", " ">>) ELSE c

\* GenerateGoCode, lines 27-32: the scaffold of the classified form.
BaseScaffold(cmd, cfg) ==
    LET c == LogicalCommand(cmd) IN
    IF isComplexCommand(c)
    THEN generateShellCommand(c, cfg.Shell, cfg.ShellFlag)
    ELSE generateSimpleCommand(c)

IsSentinelTimeout(tmo) ==
    tmo = <<>> \/ tmo = <<"0">> \/ tmo = <<"0", "s">>

GenerateGoCode(cmd, exit, tmo, retry, interval, cfg) ==
    LET g1 == BaseScaffold(cmd, cfg)
        g2 == IF exit # 0 THEN wrapWithExpectedExit(g1, exit) ELSE g1
        g3 == IF retry > 0 THEN wrapWithRetry(g2, retry, interval) ELSE g2
    IN  IF ~IsSentinelTimeout(tmo) THEN wrapWithTimeout(g3, tmo) ELSE g3

\* ------------------------------------------- reading a generated fragment

Positions(code, t) == {i \in 1..Len(code) : code[i] = t}

\* The statements that open a deadline scope.
DeadlineScopes(code) ==
    Positions(code, "ctx, cancel := context.WithTimeout(context.Background(), dur)")

\* The command invocations, in either form.
PlainInvocations(code) == Positions(code, "exec.Command(")
CancellableInvocations(code) == Positions(code, "exec.CommandContext(ctx, ")
Invocations(code) == PlainInvocations(code) \cup CancellableInvocations(code)

\* The heads of the retry loops.
Loops(code) == Positions(code, "for attempt := 1; attempt <= ")

\* The conditionals on the error being a process exit.
ExitChecks(code) ==
    Positions(code, "exitErr, ok := err.(*exec.ExitError)")
    \cup Positions(code, "exitErr, ok := lastErr.(*exec.ExitError)")

OpensBlock(t) ==
    t \in {"{", "; attempt++ {", "; ok {", "if lastErr == nil {", " {"}

\* The index of the brace closing the block entered before index j at the
\* given depth; 0 when the block is not closed.
RECURSIVE BlockEndFrom(_, _, _)
BlockEndFrom(code, j, depth) ==
    IF j > Len(code) THEN 0
    ELSE IF code[j] = "}"
         THEN IF depth = 1 THEN j ELSE BlockEndFrom(code, j + 1, depth - 1)
    ELSE IF OpensBlock(code[j]) THEN BlockEndFrom(code, j + 1, depth + 1)
    ELSE BlockEndFrom(code, j + 1, depth)

\* The closing brace of the loop whose head is at index i.
LoopEnd(code, i) == BlockEndFrom(code, i + 3, 1)

\* The index of the " else " of the conditional whose test is at index j, and
\* the statements of its else branch.
RECURSIVE ElseFrom(_, _, _)
ElseFrom(code, j, depth) ==
    IF j > Len(code) THEN 0
    ELSE IF code[j] = "} else {" /\ depth = 1 THEN j
    ELSE IF code[j] = "}" THEN ElseFrom(code, j + 1, depth - 1)
    ELSE IF OpensBlock(code[j]) THEN ElseFrom(code, j + 1, depth + 1)
    ELSE ElseFrom(code, j + 1, depth)

ElseBranch(code, j) ==
    LET e == ElseFrom(code, j + 2, 1)
        c == IF e = 0 THEN 0 ELSE BlockEndFrom(code, e + 1, 1)
    IN  IF e = 0 \/ c = 0 THEN <<>> ELSE TrimSpace(SubSeq(code, e + 1, c - 1))

UnescapeChar(t) ==
    CASE t = "\\\"" -> "\""
      [] t = "\\\\" -> "\\"
      [] t = "\\n" -> "\n"
      [] t = "\\t" -> "\t"
      [] OTHER -> t

\* The string literals from index j to the closing parenthesis.
RECURSIVE ReadArgs(_, _, _, _, _)
ReadArgs(code, j, args, cur, inLit) ==
    IF j > Len(code) THEN args
    ELSE IF inLit
         THEN IF code[j] = "\""
              THEN ReadArgs(code, j + 1, Append(args, cur), <<>>, FALSE)
              ELSE ReadArgs(code, j + 1, args,
                            Append(cur, UnescapeChar(code[j])), TRUE)
    ELSE IF code[j] = "\"" THEN ReadArgs(code, j + 1, args, <<>>, TRUE)
    ELSE IF code[j] = ")" THEN args
    ELSE ReadArgs(code, j + 1, args, cur, FALSE)

\* The argument vector of the fragment's first invocation; empty when the
\* fragment invokes nothing.
ArgVector(code) ==
    IF Invocations(code) = {} THEN <<>>
    ELSE LET i == CHOOSE i \in Invocations(code) :
                      \A k \in Invocations(code) : i <= k
         IN  ReadArgs(code, i + 1, <<>>, <<>>, FALSE)

\* --------------------------------------------------------------- state

VARIABLES
    \* GenerateGoCode's arguments
    command, expectedExit, timeout, retryCount, retryInterval, cmdConfig,
    \* its locals after lines 25 and 32, and its result
    logical, scaffold, goCode,
    \* the generated fragment's own run: the loop counter, the error of the
    \* last invocation (0: nil, k > 0: a process exit with code k, -1: any
    \* other error), the invocations and pauses so far, the assertion's
    \* verdict, and whether the deadline of its scope has passed
    attempt, lastErr, invoked, slept, verdict, expired,
    \* Parse's arguments: the document's path, its nodes in the order the
    \* Markdown walk enters them or its lines as the AsciiDoc loop reads
    \* them, and the tag set
    filePath, nodes, lines, tags,
    \* Parse's locals: the node the walk is at and the three cursors
    cursor, currentHeading, currentTestFile, currentStepGroup,
    \* the ParsedDocument Parse builds and Convert reads
    parsed,
    \* Convert's alias table and its two results
    tagCfg, specs, convErr,
    \* the result of an earlier run of the pipeline on the same input
    previous,
    \* Generate: its configuration, the output directory on disk, the
    \* scanned files and the one being processed, the specifications
    \* gathered, their grouping by output key and the key being written,
    \* the files written in this run, the error returned and the step
    \* Generate is at
    config, disk, allFiles, fileIdx, allSpecs, keyOrder, specsByKey, keyIdx,
    written, genErr, gpc,
    \* where the run is
    pc

genVars == <<command, expectedExit, timeout, retryCount, retryInterval,
             cmdConfig, logical, scaffold, goCode>>

runVars == <<attempt, lastErr, invoked, slept, verdict, expired>>

\* What outlives one run of Parse and Convert.
generateVars == <<config, disk, allFiles, fileIdx, allSpecs, keyOrder,
                  specsByKey, keyIdx, written, genErr, gpc>>

pipelineVars == <<previous, generateVars>>

extractVars == <<filePath, nodes, lines, tags, cursor, currentHeading,
                 currentTestFile, currentStepGroup, parsed, tagCfg, specs,
                 convErr>>

docVars == <<extractVars, pipelineVars>>

vars == <<genVars, runVars, docVars, pc>>

\* The fragment has not run.
NotRun ==
    /\ attempt = 0 /\ lastErr = 0 /\ invoked = 0 /\ slept = 0
    /\ verdict = "none" /\ expired = FALSE

\* DefaultConfig().Commands and the alias table of DefaultConfig().Tags.
DefaultBlockedPatterns ==
    << <<"rm", " ", "-rf", " ", "/">>, <<"mkfs">>, <<"dd", " ", "if=">>,
       <<"format", " ", "c:">>, <<">", " ", "/dev/sd">> >>

DefaultCommands ==
    [DefaultTimeout |-> <<"3", "0", "s">>,
     DefaultExpectedExitCode |-> 0,
     BlockedPatterns |-> DefaultBlockedPatterns,
     Shell |-> <<"/bin/sh">>,
     ShellFlag |-> <<"-c">>]

DefaultAttributes ==
    [step_name |-> << <<"step-name">>, <<"name">> >>,
     timeout |-> << <<"timeout">> >>,
     expected_exit_code |-> << <<"expected">>, <<"exit-code">> >>,
     describe |-> << <<"describe">> >>,
     context |-> << <<"context">> >>,
     skip_on_failure |-> << <<"skip-on-failure">> >>,
     template |-> << <<"template">> >>,
     retry |-> << <<"retry">>, <<"retries">>, <<"retry-count">> >>,
     retry_interval |-> << <<"retry-interval">>, <<"retry-delay">> >>]

DefaultTagConfig == [Attributes |-> DefaultAttributes]

EmptyDocument(path) ==
    [FilePath |-> path, FileType |-> <<"markdown">>, Blocks |-> <<>>,
     Headings |-> <<>>, Metadata |-> <<>>]

\* The pipeline has not run before.
NoRun == [ran |-> FALSE, specs |-> <<>>, err |-> <<>>]

\* "generated_" and "_test.go", character by character.
GeneratedPrefix == <<"g", "e", "n", "e", "r", "a", "t", "e", "d", "_">>
TestGoSuffix == <<"_", "t", "e", "s", "t", ".", "g", "o">>

\* DefaultConfig().Output and DefaultConfig().DryRun.
DefaultConfig ==
    [DryRun |-> FALSE,
     Output |-> [FilePrefix |-> GeneratedPrefix,
                 FileSuffix |-> TestGoSuffix,
                 CleanBeforeGenerate |-> TRUE]]

\* The output directory does not exist.
NoDirectory == [exists |-> FALSE, files |-> <<>>]

\* Generate has not been called.
NoGenerate ==
    /\ config = DefaultConfig
    /\ disk = NoDirectory
    /\ allFiles = <<>> /\ fileIdx = 0
    /\ allSpecs = <<>>
    /\ keyOrder = <<>> /\ specsByKey = <<>> /\ keyIdx = 0
    /\ written = <<>>
    /\ genErr = "nil"
    /\ gpc = "idle"

NoPipeline == previous = NoRun /\ NoGenerate

\* Parse and Convert have nothing in hand.
NoExtraction ==
    /\ filePath = <<>> /\ nodes = <<>> /\ lines = <<>> /\ tags = {}
    /\ cursor = 0
    /\ currentHeading = <<>> /\ currentTestFile = <<>>
    /\ currentStepGroup = <<>>
    /\ parsed = EmptyDocument(<<>>)
    /\ tagCfg = DefaultTagConfig
    /\ specs = <<>>
    /\ convErr = [Phase |-> <<>>, File |-> <<>>, LineNumber |-> 0,
                  Message |-> <<>>]

\* No document is in hand.
NoDocument ==
    /\ NoPipeline
    /\ NoExtraction

\* No command is in hand.
NoCommand ==
    /\ command = <<>> /\ expectedExit = 0 /\ timeout = <<>>
    /\ retryCount = 0 /\ retryInterval = <<>>
    /\ logical = <<>> /\ scaffold = <<>> /\ goCode = <<>>

\* The characters command text is drawn from: a word, a blank, a line
\* break, a shell metacharacter and a quote.
CmdChars == {"k", " ", "\n", "|", "'"}

RECURSIVE SeqsUpTo(_, _)
SeqsUpTo(S, n) ==
    IF n = 0 THEN {<<>>}
    ELSE LET shorter == SeqsUpTo(S, n - 1)
         IN  shorter \cup {Append(s, c) :
                              s \in {t \in shorter : Len(t) = n - 1}, c \in S}

TenSeconds == <<"1", "0", "s">>
Timeouts == {<<>>, <<"0">>, <<"0", "s">>, TenSeconds}
Intervals == {<<"2", "s">>}
ShellConfigs ==
    {DefaultCommands,
     [DefaultCommands EXCEPT !.Shell = <<"/bin/bash">>, !.ShellFlag = <<"-ec">>]}

\* ------------------------------------- SpecGen: the wrapper composition

InitGen ==
    /\ command \in SeqsUpTo(CmdChars, MaxCmdLen)
    /\ expectedExit \in 0..MaxExit
    /\ timeout \in Timeouts
    /\ retryCount \in 0..MaxRetry
    /\ retryInterval \in Intervals
    /\ cmdConfig = DefaultCommands
    /\ logical = <<>>
    /\ scaffold = <<>>
    /\ goCode = <<>>
    /\ NotRun
    /\ NoDocument
    /\ pc = "start"

\* One call of GenerateGoCode.
Generate ==
    /\ pc = "start"
    /\ logical' = LogicalCommand(command)
    /\ scaffold' = BaseScaffold(command, cmdConfig)
    /\ goCode' = GenerateGoCode(command, expectedExit, timeout, retryCount,
                                retryInterval, cmdConfig)
    /\ pc' = "generated"
    /\ UNCHANGED <<command, expectedExit, timeout, retryCount, retryInterval,
                   cmdConfig, runVars, docVars>>

NextGen == Generate

SpecGen == InitGen /\ [][NextGen]_vars

\* ------------------- SpecBody: body collapse and classification alone

InitBody ==
    /\ command \in SeqsUpTo(CmdChars, MaxBodyLen)
    /\ expectedExit = 0
    /\ timeout = <<>>
    /\ retryCount = 0
    /\ retryInterval = <<>>
    /\ cmdConfig \in ShellConfigs
    /\ logical = <<>>
    /\ scaffold = <<>>
    /\ goCode = <<>>
    /\ NotRun
    /\ NoDocument
    /\ pc = "start"

SpecBody == InitBody /\ [][NextGen]_vars

\* ------------------------------ SpecRun: the generated fragment, executed

\* The number a token of the fragment spells.
Atoi(t) == CHOOSE n \in 0..(MaxRetry + MaxExit + 3) : Itoa(n) = t

TheLoop(code) == CHOOSE l \in Loops(code) : TRUE

\* "attempt <= N" of the loop head and of the pause's guard.
LoopBound(code) == Atoi(code[TheLoop(code) + 1])
PauseGuard(code) ==
    LET g == CHOOSE g \in Positions(code, "if attempt <= ") : TRUE
    IN  Atoi(code[g + 1])

\* The loop body runs the command and assigns the loop-scoped variables.
BodyInvokes(code) ==
    \E i \in Invocations(code), a \in Positions(code, "lastOutput, lastErr = cmd.CombinedOutput()") :
        TheLoop(code) < i /\ i < a /\ a < LoopEnd(code, TheLoop(code))

\* What one run of the command can return.
Outcomes == {-1} \cup (0..MaxExit)

\* The verdict of the fragment's last assertion on error e.
AssertionPasses(code, e) ==
    IF ExitChecks(code) # {}
    THEN LET x == CHOOSE x \in ExitChecks(code) : TRUE
             want == CHOOSE w \in 1..Len(code) :
                        code[w] = "Expect(exitErr.ExitCode()).To(Equal("
         IN  IF e > 0 THEN e = Atoi(code[want + 1])
             ELSE ElseBranch(code, x) = <<>> \/ e = 0
    ELSE IF Positions(code, AssertNoErr[1]) # {}
            \/ Positions(code, AssertLastErr[1]) # {}
    THEN e = 0
    ELSE TRUE

RunCommands == {<<>>, <<"k">>, <<"k", "|", "k">>}

InitRun ==
    /\ command \in RunCommands
    /\ expectedExit \in 0..MaxExit
    /\ timeout \in {<<>>, TenSeconds}
    /\ retryCount \in 0..MaxRetry
    /\ retryInterval \in Intervals
    /\ cmdConfig = DefaultCommands
    /\ logical = <<>>
    /\ scaffold = <<>>
    /\ goCode = <<>>
    /\ NotRun
    /\ NoDocument
    /\ pc = "start"

\* A fragment without a loop: the command runs once.
RunOnce ==
    /\ pc = "generated" /\ Loops(goCode) = {}
    /\ IF Invocations(goCode) # {}
       THEN \E o \in Outcomes : lastErr' = o /\ invoked' = invoked + 1
       ELSE UNCHANGED <<lastErr, invoked>>
    /\ pc' = "assert"
    /\ UNCHANGED <<docVars, genVars, attempt, slept, verdict, expired>>

\* var lastErr error; for attempt := 1
EnterLoop ==
    /\ pc = "generated" /\ Loops(goCode) # {}
    /\ attempt' = 1
    /\ lastErr' = 0
    /\ pc' = "looptest"
    /\ UNCHANGED <<docVars, genVars, invoked, slept, verdict, expired>>

\* attempt <= N
LoopTest ==
    /\ pc = "looptest"
    /\ pc' = IF attempt <= LoopBound(goCode) THEN "body" ELSE "assert"
    /\ UNCHANGED <<docVars, genVars, runVars>>

\* What a run of the command at invocation i of the fragment can return:
\* under a context whose deadline has passed, an error that is not nil.
OutcomesAt(code, i) ==
    IF expired /\ i \in CancellableInvocations(code) THEN {-1} ELSE Outcomes

\* The loop body: the command runs and its error is kept.
Attempt ==
    /\ pc = "body"
    /\ IF BodyInvokes(goCode)
       THEN \E i \in Invocations(goCode) :
               /\ TheLoop(goCode) < i /\ i < LoopEnd(goCode, TheLoop(goCode))
               /\ \E o \in OutcomesAt(goCode, i) :
                     lastErr' = o /\ invoked' = invoked + 1
       ELSE UNCHANGED <<lastErr, invoked>>
    /\ pc' = "check"
    /\ UNCHANGED <<docVars, genVars, attempt, slept, verdict, expired>>

\* if lastErr == nil { break }
BreakOnSuccess ==
    /\ pc = "check"
    /\ pc' = IF lastErr = 0 THEN "assert" ELSE "pause"
    /\ UNCHANGED <<docVars, genVars, runVars>>

\* if attempt <= R { time.Sleep(...) }
Pause ==
    /\ pc = "pause" /\ attempt <= PauseGuard(goCode)
    /\ slept' = slept + 1
    /\ pc' = "incr"
    /\ UNCHANGED <<docVars, genVars, attempt, lastErr, invoked, verdict,
                   expired>>

NoPause ==
    /\ pc = "pause" /\ ~(attempt <= PauseGuard(goCode))
    /\ pc' = "incr"
    /\ UNCHANGED <<docVars, genVars, runVars>>

\* attempt++
NextAttempt ==
    /\ pc = "incr"
    /\ attempt' = attempt + 1
    /\ pc' = "looptest"
    /\ UNCHANGED <<docVars, genVars, lastErr, invoked, slept, verdict,
                   expired>>

\* The assertion that ends the fragment.
FinalAssert ==
    /\ pc = "assert"
    /\ verdict' = IF AssertionPasses(goCode, lastErr) THEN "pass" ELSE "fail"
    /\ pc' = "done"
    /\ UNCHANGED <<docVars, genVars, attempt, lastErr, invoked, slept,
                   expired>>

NextRun ==
    \/ Generate
    \/ RunOnce
    \/ EnterLoop
    \/ LoopTest
    \/ Attempt
    \/ BreakOnSuccess
    \/ Pause
    \/ NoPause
    \/ NextAttempt
    \/ FinalAssert

SpecRun == InitRun /\ [][NextRun]_vars

\* ------------------------------------------------------- converter.go

\* A nil error, and domain.NewError.
NoError == [Phase |-> <<>>, File |-> <<>>, LineNumber |-> 0, Message |-> <<>>]

NewError(phase, file, line, message) ==
    [Phase |-> phase, File |-> file, LineNumber |-> line, Message |-> message]

\* ValidateCommand checking the first blocked pattern only.
ValidateCommand_FirstPatternOnly(cmd, blockedPatterns) ==
    IF Len(blockedPatterns) > 0 /\ Contains(cmd, blockedPatterns[1])
    THEN <<"command blocked by security policy: contains ">>
         \o Quote(blockedPatterns[1])
         \o <<" -- if this is intentional, remove it from commands.blocked_patterns in docsyncer.yaml">>
    ELSE <<>>

\* The error's message, or <<>> for nil.  The dash of the message is
\* written as two hyphens.
ValidateCommand(cmd, blockedPatterns) ==
    LET hits == {k \in 1..Len(blockedPatterns) :
                    Contains(cmd, blockedPatterns[k])}
    IN  IF hits = {} THEN <<>>
        ELSE LET k == CHOOSE k \in hits : \A j \in hits : k <= j
             IN  <<"command blocked by security policy: contains ">>
                 \o Quote(blockedPatterns[k])
                 \o <<" -- if this is intentional, remove it from commands.blocked_patterns in docsyncer.yaml">>

\* tagCfg.Attributes[name]: the alias keys, none for a name not configured.
AliasKeys(tcfg, name) ==
    IF name \in DOMAIN tcfg.Attributes THEN tcfg.Attributes[name] ELSE <<>>

HasAttribute(attrs, keys) == \E k \in 1..Len(keys) : keys[k] \in DOMAIN attrs

resolveAttribute(attrs, keys) ==
    IF ~HasAttribute(attrs, keys) THEN <<>>
    ELSE LET k == CHOOSE k \in 1..Len(keys) :
                      /\ keys[k] \in DOMAIN attrs
                      /\ \A j \in 1..(k - 1) : keys[j] \notin DOMAIN attrs
         IN  attrs[keys[k]]

\* strconv.Atoi on decimal digits with an optional sign.
Digits == <<"0", "1", "2", "3", "4", "5", "6", "7", "8", "9">>

DigitValue(c) == (CHOOSE d \in 1..10 : Digits[d] = c) - 1

RECURSIVE DecimalValue(_)
DecimalValue(s) ==
    IF Len(s) = 0 THEN 0
    ELSE 10 * DecimalValue(SubSeq(s, 1, Len(s) - 1)) + DigitValue(s[Len(s)])

strconvAtoi(s) ==
    LET signed == Len(s) > 0 /\ s[1] \in {"+", "-"}
        digits == IF signed THEN Tail(s) ELSE s
        ok == /\ Len(digits) > 0
              /\ \A i \in 1..Len(digits) :
                     \E d \in 1..10 : Digits[d] = digits[i]
    IN  IF ~ok THEN [ok |-> FALSE, val |-> 0]
        ELSE [ok |-> TRUE,
              val |-> IF signed /\ s[1] = "-" THEN 0 - DecimalValue(digits)
                      ELSE DecimalValue(digits)]

\* The bytes of one token of command text.
Bytes(t) ==
    CASE t = "kubectl" -> 7
      [] t \in {"docker", ".ext4"} -> 5
      [] t \in {"helm", "curl", "pods", "mkfs", "echo"} -> 4
      [] t \in {"get", "-rf"} -> 3
      [] t \in {"rm", "hi"} -> 2
      [] OTHER -> 1

RECURSIVE ByteLen(_)
ByteLen(s) == IF Len(s) = 0 THEN 0 ELSE Bytes(s[1]) + ByteLen(Tail(s))

\* s[:n], for a cut that falls between two tokens.
RECURSIVE FirstBytes(_, _)
FirstBytes(s, n) ==
    IF Len(s) = 0 \/ Bytes(s[1]) > n THEN <<>>
    ELSE <<s[1]>> \o FirstBytes(Tail(s), n - Bytes(s[1]))

\* strings.Fields
RECURSIVE Fields(_)
Fields(s) ==
    LET t == TrimLeft(s)
        ends == {i \in 1..Len(t) : IsSpace(t[i])}
        e == IF ends = {} THEN Len(t) + 1
             ELSE CHOOSE i \in ends : \A j \in ends : i <= j
    IN  IF Len(t) = 0 THEN <<>>
        ELSE <<SubSeq(t, 1, e - 1)>> \o Fields(SubSeq(t, e, Len(t)))

\* autoStepName naming a curl command after its first argument, as it names
\* the other three verbs.
autoStepName_CurlArgument(cmd, index) ==
    LET cmdLines == SplitLines(TrimSpace(cmd))
        first == TrimSpace(cmdLines[1])
        parts == Fields(first)
    IN  IF Len(parts) = 0 THEN <<"Step ", Itoa(index + 1)>>
        ELSE IF parts[1] \in {<<"kubectl">>, <<"helm">>, <<"docker">>,
                              <<"curl">>}
                /\ Len(parts) > 1
        THEN parts[1] \o <<" ">> \o parts[2]
        ELSE IF ByteLen(first) > 50 THEN FirstBytes(first, 50)
        ELSE first

autoStepName(cmd, index) ==
    LET cmdLines == SplitLines(TrimSpace(cmd))
        first == TrimSpace(cmdLines[1])
        parts == Fields(first)
    IN  IF Len(parts) = 0 THEN <<"Step ", Itoa(index + 1)>>
        ELSE IF parts[1] \in {<<"kubectl">>, <<"helm">>, <<"docker">>}
                /\ Len(parts) > 1
        THEN parts[1] \o <<" ">> \o parts[2]
        ELSE IF parts[1] = <<"curl">> THEN <<"curl request">>
        ELSE IF ByteLen(first) > 50 THEN FirstBytes(first, 50)
        ELSE first

\* The four-argument GenerateGoCode blockToStep calls: no retry stage.
GenerateGoCodeNoRetry(cmd, exit, tmo, cfg) ==
    LET g1 == BaseScaffold(cmd, cfg)
        g2 == IF ~IsSentinelTimeout(tmo) THEN wrapWithTimeout(g1, tmo) ELSE g1
    IN  IF exit # 0 THEN wrapWithExpectedExit(g2, exit) ELSE g2

\* blockToStep leaving the timeout empty when the attribute is absent.
blockToStep_NoDefaultTimeout(block, index, tcfg, cfg) ==
    LET name == resolveAttribute(block.Attributes, AliasKeys(tcfg, "step_name"))
        tmo == resolveAttribute(block.Attributes, AliasKeys(tcfg, "timeout"))
        exitCodeStr == resolveAttribute(block.Attributes,
                                        AliasKeys(tcfg, "expected_exit_code"))
        code == strconvAtoi(exitCodeStr)
        exit == IF exitCodeStr # <<>>
                THEN (IF code.ok THEN code.val ELSE 0)
                ELSE cfg.DefaultExpectedExitCode
        skipStr == resolveAttribute(block.Attributes,
                                    AliasKeys(tcfg, "skip_on_failure"))
    IN  [Name |-> IF name = <<>> THEN autoStepName(block.Content, index)
                  ELSE name,
         Command |-> block.Content,
         GoCode |-> GenerateGoCodeNoRetry(block.Content, exit, tmo, cfg),
         ExpectedExit |-> exit,
         Timeout |-> tmo,
         LineNumber |-> block.LineNumber,
         SkipOnFailure |-> skipStr \in {<<"true">>, <<"yes">>},
         RetryCount |-> 0,
         RetryInterval |-> <<>>]

blockToStep(block, index, tcfg, cfg) ==
    LET name == resolveAttribute(block.Attributes, AliasKeys(tcfg, "step_name"))
        attr == resolveAttribute(block.Attributes, AliasKeys(tcfg, "timeout"))
        tmo == IF attr = <<>> THEN cfg.DefaultTimeout ELSE attr
        exitCodeStr == resolveAttribute(block.Attributes,
                                        AliasKeys(tcfg, "expected_exit_code"))
        code == strconvAtoi(exitCodeStr)
        exit == IF exitCodeStr # <<>>
                THEN (IF code.ok THEN code.val ELSE 0)
                ELSE cfg.DefaultExpectedExitCode
        skipStr == resolveAttribute(block.Attributes,
                                    AliasKeys(tcfg, "skip_on_failure"))
    IN  [Name |-> IF name = <<>> THEN autoStepName(block.Content, index)
                  ELSE name,
         Command |-> block.Content,
         GoCode |-> GenerateGoCodeNoRetry(block.Content, exit, tmo, cfg),
         ExpectedExit |-> exit,
         Timeout |-> tmo,
         LineNumber |-> block.LineNumber,
         SkipOnFailure |-> skipStr \in {<<"true">>, <<"yes">>},
         RetryCount |-> 0,
         RetryInterval |-> <<>>]

\* filepath.Base and filepath.Ext of a path that names a file: the tokens
\* after the last separator, and the last token when it is an extension.
Base(path) ==
    LET seps == {i \in 1..Len(path) : path[i] = "/"}
        last == IF seps = {} THEN 0
                ELSE CHOOSE i \in seps : \A j \in seps : j <= i
    IN  SubSeq(path, last + 1, Len(path))

Ext(path) ==
    LET b == Base(path)
    IN  IF Len(b) > 0 /\ b[Len(b)] \in {".md", ".markdown", ".adoc"}
        THEN <<b[Len(b)]>> ELSE <<>>

\* inferDescribeBlock without the fallback to the first heading of any level.
inferDescribeBlock_NoFallback(doc) ==
    LET top == {i \in 1..Len(doc.Headings) : doc.Headings[i].Level = 1}
    IN  IF top # {}
        THEN doc.Headings[CHOOSE i \in top : \A j \in top : i <= j].Text
        ELSE TrimSuffix(Base(doc.FilePath), Ext(doc.FilePath))

inferDescribeBlock(doc) ==
    LET top == {i \in 1..Len(doc.Headings) : doc.Headings[i].Level = 1}
    IN  IF top # {}
        THEN doc.Headings[CHOOSE i \in top : \A j \in top : i <= j].Text
        ELSE IF Len(doc.Headings) > 0 THEN doc.Headings[1].Text
        ELSE TrimSuffix(Base(doc.FilePath), Ext(doc.FilePath))

inferContextBlock(doc) ==
    LET second == {i \in 1..Len(doc.Headings) : doc.Headings[i].Level = 2}
    IN  IF second # {}
        THEN doc.Headings[CHOOSE i \in second : \A j \in second : i <= j].Text
        ELSE <<>>

\* Convert, lines 39-48, with the groups in the reverse of first occurrence.
groupOrder_LastFirst(blocks) ==
    LET firsts == SelectSeq([i \in 1..Len(blocks) |-> i],
                     LAMBDA i : \A j \in 1..(i - 1) :
                                  blocks[j].TestGroup # blocks[i].TestGroup)
    IN  [k \in 1..Len(firsts) |-> blocks[firsts[Len(firsts) + 1 - k]].TestGroup]

\* Convert, lines 39-48: the keys in the order they first occur, and the
\* blocks of one key in document order.
groupOrder(blocks) ==
    LET firsts == SelectSeq([i \in 1..Len(blocks) |-> i],
                     LAMBDA i : \A j \in 1..(i - 1) :
                                  blocks[j].TestGroup # blocks[i].TestGroup)
    IN  [k \in 1..Len(firsts) |-> blocks[firsts[k]].TestGroup]

groupBlocks(blocks, group) ==
    SelectSeq(blocks, LAMBDA b : b.TestGroup = group)

\* Convert, lines 88-98: every block that has a template key assigns the
\* name, so the last of them is the one that stays.
TemplateOverride(blocks, tcfg) ==
    LET templateKeys == AliasKeys(tcfg, "template")
        with == {i \in 1..Len(blocks) :
                    HasAttribute(blocks[i].Attributes, templateKeys)}
    IN  IF with = {} THEN <<>>
        ELSE resolveAttribute(
                 blocks[CHOOSE i \in with : \A j \in with : j <= i].Attributes,
                 templateKeys)

\* Convert, lines 56-100: the Test Specification of one group.
GroupSpec(doc, group, tcfg, cfg) ==
    LET blocks == groupBlocks(doc.Blocks, group)
        base == Base(doc.FilePath)
        fileTestName == TrimSuffix(base, Ext(base))
    IN  [SourceFile |-> doc.FilePath,
         SourceType |-> doc.FileType,
         TestName |-> IF group = <<>> THEN fileTestName ELSE group,
         DescribeBlock |-> inferDescribeBlock(doc),
         ContextBlock |-> inferContextBlock(doc),
         Steps |-> [i \in 1..Len(blocks) |->
                       blockToStep(blocks[i], i - 1, tcfg, cfg)],
         TemplateName |-> TemplateOverride(blocks, tcfg)]

RECURSIVE Flatten(_)
Flatten(seqs) ==
    IF Len(seqs) = 0 THEN <<>> ELSE seqs[1] \o Flatten(Tail(seqs))

\* Convert: the Test Specifications and the error it returns.
ConvertResult(doc, tcfg, cfg) ==
    LET order == groupOrder(doc.Blocks)
        visited == Flatten([g \in 1..Len(order) |->
                               groupBlocks(doc.Blocks, order[g])])
        rejected == {i \in 1..Len(visited) :
                        ValidateCommand(visited[i].Content,
                                        cfg.BlockedPatterns) # <<>>}
    IN  IF Len(doc.Blocks) = 0 THEN [specs |-> <<>>, err |-> NoError]
        ELSE IF rejected # {}
        THEN LET b == visited[CHOOSE i \in rejected :
                                  \A j \in rejected : i <= j]
             IN  [specs |-> <<>>,
                  err |-> NewError(<<"convert">>, doc.FilePath, b.LineNumber,
                                   ValidateCommand(b.Content,
                                                   cfg.BlockedPatterns))]
        ELSE [specs |-> [g \in 1..Len(order) |->
                            GroupSpec(doc, order[g], tcfg, cfg)],
              err |-> NoError]

\* --------------------------------------------------------- markdown.go

HasPrefix(s, pre) == Len(pre) <= Len(s) /\ SubSeq(s, 1, Len(pre)) = pre

TrimPrefix(s, pre) ==
    IF HasPrefix(s, pre) THEN SubSeq(s, Len(pre) + 1, Len(s)) ELSE s

\* strings.TrimRight(s, "\n")
RECURSIVE TrimRightNewlines(_)
TrimRightNewlines(s) ==
    IF Len(s) > 0 /\ s[Len(s)] = "\n"
    THEN TrimRightNewlines(SubSeq(s, 1, Len(s) - 1)) ELSE s

\* strings.Trim(s, "\"'")
RECURSIVE TrimQuotes(_)
TrimQuotes(s) ==
    IF Len(s) > 0 /\ s[1] \in {"\"", "'"} THEN TrimQuotes(Tail(s))
    ELSE IF Len(s) > 0 /\ s[Len(s)] \in {"\"", "'"}
    THEN TrimQuotes(SubSeq(s, 1, Len(s) - 1))
    ELSE s

\* m[k] = v on a Go map, and m[k] read with the zero value for a missing key.
Put(m, k, v) == [x \in (DOMAIN m) \cup {k} |-> IF x = k THEN v ELSE m[x]]

Get(m, k) == IF k \in DOMAIN m THEN m[k] ELSE <<>>

RECURSIVE splitInfoFrom(_, _, _, _, _, _)
splitInfoFrom(s, i, parts, current, inQuote, quoteChar) ==
    IF i > Len(s)
    THEN IF Len(current) > 0 THEN Append(parts, current) ELSE parts
    ELSE LET c == s[i] IN
         IF inQuote
         THEN splitInfoFrom(s, i + 1, parts, Append(current, c),
                            c # quoteChar, quoteChar)
         ELSE IF c \in {"\"", "'"}
         THEN splitInfoFrom(s, i + 1, parts, Append(current, c), TRUE, c)
         ELSE IF c \in {" ", "\t"}
         THEN splitInfoFrom(s, i + 1,
                            IF Len(current) > 0 THEN Append(parts, current)
                            ELSE parts,
                            <<>>, FALSE, quoteChar)
         ELSE splitInfoFrom(s, i + 1, parts, Append(current, c), FALSE,
                            quoteChar)

splitInfoString(s) == splitInfoFrom(s, 1, <<>>, <<>>, FALSE, "")

\* parseInfoString, lines 175-183: the key=value tokens after the tag.
RECURSIVE InfoAttributes(_, _)
InfoAttributes(parts, result) ==
    IF Len(parts) = 0 THEN result
    ELSE LET part == parts[1]
             idx == Index(part, <<"=">>)
         IN  InfoAttributes(Tail(parts),
                 IF idx > 1
                 THEN Put(result, SubSeq(part, 1, idx - 1),
                          TrimQuotes(SubSeq(part, idx + 1, Len(part))))
                 ELSE result)

parseInfoString(info) ==
    LET parts == splitInfoString(TrimSpace(info))
    IN  IF Len(parts) = 0 THEN <<>>
        ELSE InfoAttributes(Tail(parts), Put(<<>>, <<"_tag">>, parts[1]))

\* The orders in which a range over a map may yield its keys.
KeyOrders(m) ==
    {o \in [1..Cardinality(DOMAIN m) -> DOMAIN m] :
        \A i, j \in DOMAIN o : o[i] = o[j] => i = j}

\* RangeCopy leaving the loop at the tag's key instead of passing over it.
RECURSIVE RangeCopy_StopAtTag(_, _, _)
RangeCopy_StopAtTag(parts, order, attrs) ==
    IF Len(order) = 0 \/ order[1] = <<"_tag">> THEN attrs
    ELSE RangeCopy_StopAtTag(parts, Tail(order),
                             Put(attrs, order[1], parts[order[1]]))

\* Parse, lines 93-98: the attributes copied out of parts, its keys taken
\* in the given order.
RECURSIVE RangeCopy(_, _, _)
RangeCopy(parts, order, attrs) ==
    IF Len(order) = 0 THEN attrs
    ELSE RangeCopy(parts, Tail(order),
                   IF order[1] # <<"_tag">>
                   THEN Put(attrs, order[1], parts[order[1]]) ELSE attrs)

\* Parse, lines 74-108: the Content Unit of a fenced block, given the line
\* its body starts at, the three cursors and the order of the range.
CodeBlock(node, line, heading, testFile, stepGroup, order) ==
    LET parts == parseInfoString(node.Info)
    IN  [Tag |-> Get(parts, <<"_tag">>),
         Content |-> TrimRightNewlines(node.Text),
         LineNumber |-> line,
         Attributes |-> RangeCopy(parts, order, <<>>),
         Context |-> heading,
         TestGroup |-> testFile,
         StepGroup |-> stepGroup]

\* Parse, line 83
IsTagged(node, tagSet) ==
    Get(parseInfoString(node.Info), <<"_tag">>) \in tagSet \/ node.Lang \in tagSet

\* The name a start marker carries, lines 123-125 and 132-134.
MarkerName(htmlText, prefix) ==
    TrimSpace(TrimSuffix(TrimPrefix(htmlText, prefix), <<"-->">>))

\* TestFileAfter with a test-end marker that leaves the cursor alone.
TestFileAfter_EndIgnored(htmlText, testFile) ==
    IF HasPrefix(htmlText, <<"<!-- test-start:">>)
    THEN MarkerName(htmlText, <<"<!-- test-start:">>)
    ELSE testFile

\* Parse, lines 121-138: the two cursors after an HTML block.
TestFileAfter(htmlText, testFile) ==
    IF HasPrefix(htmlText, <<"<!-- test-start:">>)
    THEN MarkerName(htmlText, <<"<!-- test-start:">>)
    ELSE IF HasPrefix(htmlText, <<"<!-- test-end">>) THEN <<>>
    ELSE testFile

\* StepGroupAfter with a test-step-end marker that leaves the cursor alone.
StepGroupAfter_EndIgnored(htmlText, stepGroup) ==
    IF \/ HasPrefix(htmlText, <<"<!-- test-start:">>)
       \/ HasPrefix(htmlText, <<"<!-- test-end">>)
    THEN stepGroup
    ELSE IF HasPrefix(htmlText, <<"<!-- test-step-start:">>)
    THEN MarkerName(htmlText, <<"<!-- test-step-start:">>)
    ELSE stepGroup

StepGroupAfter(htmlText, stepGroup) ==
    IF \/ HasPrefix(htmlText, <<"<!-- test-start:">>)
       \/ HasPrefix(htmlText, <<"<!-- test-end">>)
    THEN stepGroup
    ELSE IF HasPrefix(htmlText, <<"<!-- test-step-start:">>)
    THEN MarkerName(htmlText, <<"<!-- test-step-start:">>)
    ELSE IF HasPrefix(htmlText, <<"<!-- test-step-end">>) THEN <<>>
    ELSE stepGroup

\* lineNumber: each node of the documents drawn takes three lines and a
\* blank line after it.
lineNumber(i) == 4 * i - 3


\* ------------------------- SpecParse: Parse, then Convert on its result

DocPath == <<"docs", "/", "guide", ".md">>
DefaultTags == {<<"go-e2e-step">>}
EchoBody == <<"echo", " ", "hi", "\n">>

\* node.Language(content): the info string up to its first space.
Language(info) ==
    LET i == Index(info, <<" ">>)
    IN  IF i = 0 THEN info ELSE SubSeq(info, 1, i - 1)

Node(kind, level, text, info) ==
    [Kind |-> kind, Level |-> level, Text |-> text, Info |-> info,
     Lang |-> Language(info)]

StartMarker(name) ==
    Node("HTMLBlock", 0, <<"<!-- test-start:", " ", name, " ", "-->", "\n">>,
         <<>>)

\* The nodes documents are drawn from: a heading, a tagged and an untagged
\* fenced block, the markers of two Test Units and of a Step Group, and a
\* paragraph.
NodeKinds ==
    {Node("Heading", 1, <<"Title">>, <<>>),
     Node("FencedCodeBlock", 0, EchoBody, <<"go-e2e-step">>),
     Node("FencedCodeBlock", 0, EchoBody, <<"bash">>),
     StartMarker("A"),
     StartMarker("B"),
     Node("HTMLBlock", 0, <<"<!-- test-end", " ", "-->", "\n">>, <<>>),
     Node("HTMLBlock", 0,
          <<"<!-- test-step-start:", " ", "S", " ", "-->", "\n">>, <<>>),
     Node("HTMLBlock", 0, <<"<!-- test-step-end", " ", "-->", "\n">>, <<>>),
     Node("Paragraph", 0, <<"text">>, <<>>)}

InitParse ==
    /\ filePath = DocPath
    /\ nodes \in SeqsUpTo(NodeKinds, MaxNodes)
    /\ lines = <<>>
    /\ tags = DefaultTags
    /\ cursor = 1
    /\ currentHeading = <<>> /\ currentTestFile = <<>>
    /\ currentStepGroup = <<>>
    /\ parsed = EmptyDocument(DocPath)
    /\ tagCfg = DefaultTagConfig
    /\ cmdConfig = DefaultCommands
    /\ specs = <<>>
    /\ convErr = NoError
    /\ NoPipeline
    /\ NoCommand
    /\ NotRun
    /\ pc = "walk"

AtNode(kind) ==
    pc = "walk" /\ cursor <= Len(nodes) /\ nodes[cursor].Kind = kind

\* case *ast.Heading
VisitHeading ==
    /\ AtNode("Heading")
    /\ parsed' = [parsed EXCEPT !.Headings =
                     Append(@, [Level |-> nodes[cursor].Level,
                                Text |-> nodes[cursor].Text,
                                Line |-> lineNumber(cursor)])]
    /\ currentHeading' = nodes[cursor].Text
    /\ cursor' = cursor + 1
    /\ UNCHANGED <<filePath, nodes, lines, tags, currentTestFile,
                   currentStepGroup,
                   tagCfg, pipelineVars, specs, convErr, genVars, runVars, pc>>

\* case *ast.FencedCodeBlock
VisitFencedCodeBlock ==
    /\ AtNode("FencedCodeBlock")
    /\ \E order \in KeyOrders(parseInfoString(nodes[cursor].Info)) :
          parsed' = IF IsTagged(nodes[cursor], tags)
                    THEN [parsed EXCEPT !.Blocks =
                             Append(@, CodeBlock(nodes[cursor],
                                                 lineNumber(cursor) + 1,
                                                 currentHeading,
                                                 currentTestFile,
                                                 currentStepGroup, order))]
                    ELSE parsed
    /\ cursor' = cursor + 1
    /\ UNCHANGED <<filePath, nodes, lines, tags, currentHeading,
                   currentTestFile,
                   currentStepGroup, tagCfg,
                   pipelineVars, specs, convErr, genVars, runVars,
                   pc>>

\* case *ast.HTMLBlock
VisitHTMLBlock ==
    /\ AtNode("HTMLBlock")
    /\ LET htmlText == TrimSpace(nodes[cursor].Text) IN
       /\ currentTestFile' = TestFileAfter(htmlText, currentTestFile)
       /\ currentStepGroup' = StepGroupAfter(htmlText, currentStepGroup)
       /\ parsed' = IF HasPrefix(htmlText, <<"<!-- test-start:">>)
                    THEN [parsed EXCEPT !.Metadata =
                             Put(@, "test-start",
                                 MarkerName(htmlText, <<"<!-- test-start:">>))]
                    ELSE parsed
    /\ cursor' = cursor + 1
    /\ UNCHANGED <<filePath, nodes, lines, tags, currentHeading, tagCfg,
                   pipelineVars, specs,
                   convErr, genVars, runVars, pc>>

\* Any other node: the switch has no case for it.
VisitOther ==
    /\ pc = "walk" /\ cursor <= Len(nodes)
    /\ nodes[cursor].Kind \notin {"Heading", "FencedCodeBlock", "HTMLBlock"}
    /\ cursor' = cursor + 1
    /\ UNCHANGED <<filePath, nodes, lines, tags, currentHeading,
                   currentTestFile,
                   currentStepGroup, parsed, tagCfg,
                   pipelineVars, specs, convErr, genVars,
                   runVars, pc>>

\* return parsed, nil
ParseReturn ==
    /\ pc = "walk" /\ cursor > Len(nodes)
    /\ pc' = "parsed"
    /\ UNCHANGED <<docVars, genVars, runVars>>

\* One call of Convert on the parsed document.
Convert ==
    /\ pc = "parsed"
    /\ LET r == ConvertResult(parsed, tagCfg, cmdConfig) IN
       /\ specs' = r.specs
       /\ convErr' = r.err
    /\ pc' = "converted"
    /\ UNCHANGED <<filePath, nodes, lines, tags, cursor, currentHeading,
                   currentTestFile, currentStepGroup, parsed, tagCfg,
                   pipelineVars, genVars,
                   runVars>>

NextParse ==
    \/ VisitHeading
    \/ VisitFencedCodeBlock
    \/ VisitHTMLBlock
    \/ VisitOther
    \/ ParseReturn
    \/ Convert

SpecParse == InitParse /\ [][NextParse]_vars

\* ------------------------------ SpecConv: Convert on documents as given

KubectlGetPods == <<"kubectl", " ", "get", " ", "pods">>

\* Command bodies: one no default pattern blocks, one the first default
\* pattern blocks and one the second blocks inside a longer word.
ConvContents ==
    {KubectlGetPods, <<"rm", " ", "-rf", " ", "/">>, <<"mkfs", ".ext4">>}

TestGroups == {<<>>, <<"A">>, <<"B">>}

BlockedLists == {DefaultBlockedPatterns, <<>>, << <<"pods">> >>}

\* The documents of n blocks, the i-th block at line 10 * i.
RECURSIVE BlockSeqs(_)
BlockSeqs(n) ==
    IF n = 0 THEN {<<>>}
    ELSE {Append(bs, [Tag |-> <<"go-e2e-step">>, Content |-> c,
                      LineNumber |-> 10 * n, Attributes |-> <<>>,
                      Context |-> <<>>, TestGroup |-> g, StepGroup |-> <<>>]) :
             bs \in BlockSeqs(n - 1), c \in ConvContents, g \in TestGroups}

InitConv ==
    /\ filePath = DocPath
    /\ nodes = <<>>
    /\ lines = <<>>
    /\ tags = DefaultTags
    /\ cursor = 1
    /\ currentHeading = <<>> /\ currentTestFile = <<>>
    /\ currentStepGroup = <<>>
    /\ \E n \in 0..MaxBlocks : \E bs \in BlockSeqs(n) :
          parsed = [EmptyDocument(DocPath) EXCEPT !.Blocks = bs]
    /\ tagCfg = DefaultTagConfig
    /\ \E l \in BlockedLists :
          cmdConfig = [DefaultCommands EXCEPT !.BlockedPatterns = l]
    /\ specs = <<>>
    /\ convErr = NoError
    /\ NoPipeline
    /\ NoCommand
    /\ NotRun
    /\ pc = "parsed"

NextConv == Convert

SpecConv == InitConv /\ [][NextConv]_vars

\* ============================================================== claims

Generated == pc = "generated"

\* C1 (as claimed): with expected exit code 1, retry count 3 and timeout
\* "10s", for every non-empty command the fragment has exactly one deadline
\* scope, a retry loop of 4 attempts inside it, and exactly one
\* exit-code-conditional assertion, placed after the loop.
C1_ExitRetryTimeoutShape ==
    (Generated /\ expectedExit = 1 /\ retryCount = 3 /\ timeout = TenSeconds
     /\ command # <<>>)
    => /\ Cardinality(DeadlineScopes(goCode)) = 1
       /\ Cardinality(Loops(goCode)) = 1
       /\ \A l \in Loops(goCode) :
            /\ goCode[l + 1] = "4"
            /\ \A d \in DeadlineScopes(goCode) : d < l
            /\ Cardinality(ExitChecks(goCode)) = 1
            /\ \A x \in ExitChecks(goCode) : LoopEnd(goCode, l) < x

\* C2: a timeout other than "", "0" and "0s" gives exactly one deadline
\* scope, opened before every invocation, and every invocation is
\* exec.CommandContext(ctx, ...); with "", "0" or "0s" there is no deadline
\* scope and no cancellable invocation.
C2_DeadlineScope ==
    Generated =>
      IF IsSentinelTimeout(timeout)
      THEN /\ DeadlineScopes(goCode) = {}
           /\ CancellableInvocations(goCode) = {}
      ELSE /\ Cardinality(DeadlineScopes(goCode)) = 1
           /\ PlainInvocations(goCode) = {}
           /\ \A d \in DeadlineScopes(goCode) :
                \A i \in Invocations(goCode) : d < i

C2_Witness ==
    /\ Generated /\ timeout = TenSeconds /\ retryCount > 0 /\ expectedExit # 0
    /\ CancellableInvocations(goCode) # {}

\* C4 (as claimed): with a retry count above 0 the final assertion occurs
\* once, after the loop, on the loop-scoped variables; with an expected exit
\* code other than 0 it is the exit-aware conditional whose else branch
\* still asserts that no error occurred.
C4_FinalAssertion ==
    (Generated /\ retryCount > 0 /\ Invocations(goCode) # {})
    => \A l \in Loops(goCode) :
         IF expectedExit = 0
         THEN /\ ExitChecks(goCode) = {}
              /\ Positions(goCode, "Expect(err).ToNot(HaveOccurred(), ") = {}
              /\ Cardinality(Positions(goCode, AssertLastErr[1])) = 1
              /\ \A a \in Positions(goCode, AssertLastErr[1]) :
                   LoopEnd(goCode, l) < a
         ELSE /\ Cardinality(ExitChecks(goCode)) = 1
              /\ \A x \in ExitChecks(goCode) :
                   /\ LoopEnd(goCode, l) < x
                   /\ goCode[x] = "exitErr, ok := lastErr.(*exec.ExitError)"
                   /\ Contains(goCode,
                         <<"Expect(exitErr.ExitCode()).To(Equal(",
                           Itoa(expectedExit), "), ", "string(lastOutput)">>)
                   /\ ElseBranch(goCode, x) # <<>>

\* The characters and pairs of characters the claim lists as making a
\* command complex.
ListedMetacharacter(c, i) ==
    \/ c[i] \in {"|", ";", ">", "<", Backtick, "&"}
    \/ i < Len(c) /\ c[i] = "$" /\ c[i + 1] = "("

NonBlankLines(body) ==
    SelectSeq([i \in 1..Len(SplitLines(body)) |-> TrimSpace(SplitLines(body)[i])],
              LAMBDA l : l # <<>>)

\* C7: the body is collapsed to its non-blank lines, trimmed, in order,
\* joined by " && "; two or more non-blank lines always go through the
\* shell, and a single one is classified on that line alone.
C7_BodyCollapse ==
    Generated =>
      LET ls == NonBlankLines(command)
          viaShell == /\ Len(ArgVector(scaffold)) = 3
                      /\ ArgVector(scaffold)[1] = cmdConfig.Shell
                      /\ ArgVector(scaffold)[2] = cmdConfig.ShellFlag
      IN  /\ logical = Join(ls, <<" ", "&", "&", " ">>)
          /\ Len(ls) >= 2 => viaShell /\ ArgVector(scaffold)[3] = logical
          /\ Len(ls) = 1 => (viaShell <=> isComplexCommand(ls[1]))

C7_Witness ==
    /\ Generated
    /\ command = <<"k", "\n", "\n", "k">>
    /\ logical = <<"k", " ", "&", "&", " ", "k">>

Min(a, b) == IF a < b THEN a ELSE b

\* C3: for a retry count R above 0 the generated loop runs the command once
\* in every attempt, makes at most R+1 attempts, makes no attempt after one
\* that returned no error, and has paused once after each failed attempt
\* that another attempt follows: never after attempt R+1, never after a
\* success.  (Stated of fragments that invoke a command.)
C3_RetryLoopRun ==
    (retryCount > 0 /\ Invocations(goCode) # {}
     /\ pc \in {"looptest", "body", "check", "pause", "incr", "assert", "done"})
    => /\ invoked <= retryCount + 1
       /\ pc \in {"body", "check", "pause", "incr"} => attempt <= retryCount + 1
       /\ pc \in {"looptest", "body"} => invoked = attempt - 1
       /\ pc \in {"check", "pause", "incr", "assert", "done"} /\ lastErr # 0
            => invoked = Min(attempt, retryCount + 1)
       /\ pc \in {"check", "assert", "done"} /\ lastErr = 0 => invoked = attempt
       /\ pc \in {"pause", "incr"} => lastErr # 0
       /\ pc \in {"looptest", "body"} /\ attempt > 1 => lastErr # 0
       /\ pc \in {"looptest", "body", "check", "pause"}
            => slept = Min(attempt - 1, retryCount)
       /\ pc = "incr" => slept = Min(attempt, retryCount)
       /\ pc \in {"assert", "done"} => slept = invoked - 1

C3_Witness ==
    /\ pc = "done" /\ retryCount = 2 /\ Invocations(goCode) # {}
    /\ lastErr # 0 /\ invoked = 3 /\ slept = 2

Converted == pc = "converted"

\* The Content Units of the document whose raw text contains a blocked
\* substring.
RejectedUnits ==
    {i \in 1..Len(parsed.Blocks) :
        \E k \in 1..Len(cmdConfig.BlockedPatterns) :
            Contains(parsed.Blocks[i].Content, cmdConfig.BlockedPatterns[k])}

\* C5: if the raw text of any Content Unit contains a blocked substring,
\* Convert returns an error and no Test Specification at all; the error
\* carries phase "convert", the document path, the source line of a rejected
\* Content Unit and a message naming a blocked substring that unit contains.
\* If no Content Unit contains a blocked substring, Convert returns no error.
C5_BlockedAborts ==
    Converted =>
        IF RejectedUnits # {}
        THEN /\ specs = <<>>
             /\ convErr.Phase = <<"convert">>
             /\ convErr.File = parsed.FilePath
             /\ \E i \in RejectedUnits :
                   /\ convErr.LineNumber = parsed.Blocks[i].LineNumber
                   /\ \E k \in 1..Len(cmdConfig.BlockedPatterns) :
                         /\ Contains(parsed.Blocks[i].Content,
                                     cmdConfig.BlockedPatterns[k])
                         /\ Contains(convErr.Message,
                                     Quote(cmdConfig.BlockedPatterns[k]))
        ELSE convErr = NoError

\* A document whose first group is clean and whose second group holds a
\* command the second default pattern blocks: nothing is returned for
\* either group.
C5_Witness ==
    /\ Converted
    /\ cmdConfig = DefaultCommands
    /\ Len(parsed.Blocks) = 2
    /\ parsed.Blocks[1].Content = KubectlGetPods
    /\ parsed.Blocks[1].TestGroup = <<"A">>
    /\ parsed.Blocks[2].Content = <<"mkfs", ".ext4">>
    /\ parsed.Blocks[2].TestGroup = <<"B">>
    /\ specs = <<>>
    /\ convErr.LineNumber = 20
    /\ Contains(convErr.Message, Quote(<<"mkfs">>))

\* The Test Steps Convert made of "kubectl get pods" units without attributes.
PlainKubectlSteps ==
    {st \in UNION {{specs[s].Steps[j] : j \in 1..Len(specs[s].Steps)} :
                      s \in 1..Len(specs)} :
        /\ st.Command = KubectlGetPods
        /\ \E i \in 1..Len(parsed.Blocks) :
              /\ parsed.Blocks[i].LineNumber = st.LineNumber
              /\ parsed.Blocks[i].Attributes = <<>>}

\* The direct invocation of kubectl get pods, once, and no shell.
SimpleKubectl(code) ==
    /\ Cardinality(Invocations(code)) = 1
    /\ ArgVector(code) = << <<"kubectl">>, <<"get">>, <<"pods">> >>

Slots ==
    UNION {{<<s, j>> : j \in 1..Len(specs[s].Steps)} : s \in 1..Len(specs)}

\* The places holding the Test Step made of the i-th Content Unit.
SlotsOf(i) ==
    {sl \in Slots :
        /\ specs[sl[1]].Steps[sl[2]].LineNumber = parsed.Blocks[i].LineNumber
        /\ specs[sl[1]].Steps[sl[2]].Command = parsed.Blocks[i].Content}

SlotOf(i) == CHOOSE sl \in SlotsOf(i) : TRUE

\* C9: when every Content Unit passes validation, each Content Unit is
\* exactly one Test Step of exactly one Test Specification; units are in the
\* same Test Specification exactly when their grouping keys are equal, the
\* empty key included; the Test Specifications are in the order their keys
\* first occur in the document; the Test Steps of each are in document order.
C9_Partition ==
    (Converted /\ RejectedUnits = {}) =>
        LET n == Len(parsed.Blocks) IN
        /\ convErr = NoError
        /\ Cardinality(Slots) = n
        /\ \A i \in 1..n : Cardinality(SlotsOf(i)) = 1
        /\ \A i1, i2 \in 1..n :
              /\ (parsed.Blocks[i1].TestGroup = parsed.Blocks[i2].TestGroup)
                    <=> (SlotOf(i1)[1] = SlotOf(i2)[1])
              /\ (i1 < i2 /\ SlotOf(i1)[1] = SlotOf(i2)[1])
                    => SlotOf(i1)[2] < SlotOf(i2)[2]
        /\ \A i2 \in 1..n :
              (\A i1 \in 1..(i2 - 1) : SlotOf(i1)[1] # SlotOf(i2)[1])
                 => \A i1 \in 1..(i2 - 1) : SlotOf(i1)[1] < SlotOf(i2)[1]

\* Keys B, A, B: two Test Specifications, B's first, with B's two steps in
\* document order.
C9_Witness ==
    /\ Converted
    /\ Len(parsed.Blocks) = 3
    /\ parsed.Blocks[1].TestGroup = <<"B">>
    /\ parsed.Blocks[2].TestGroup = <<>>
    /\ parsed.Blocks[3].TestGroup = <<"B">>
    /\ Len(specs) = 2
    /\ specs[1].TestName = <<"B">>
    /\ Len(specs[1].Steps) = 2
    /\ specs[1].Steps[1].LineNumber = 10
    /\ specs[1].Steps[2].LineNumber = 30
    /\ specs[2].TestName = <<"guide">>
    /\ specs[2].Steps[1].LineNumber = 20

\* The markers and the tagged blocks of the document Parse walked.
IsTestStart(p) ==
    /\ nodes[p].Kind = "HTMLBlock"
    /\ HasPrefix(TrimSpace(nodes[p].Text), <<"<!-- test-start:">>)

IsTestEnd(p) ==
    /\ nodes[p].Kind = "HTMLBlock"
    /\ HasPrefix(TrimSpace(nodes[p].Text), <<"<!-- test-end">>)

TestStartName(p) ==
    MarkerName(TrimSpace(nodes[p].Text), <<"<!-- test-start:">>)

TaggedBlocks ==
    {q \in 1..Len(nodes) :
        nodes[q].Kind = "FencedCodeBlock" /\ IsTagged(nodes[q], tags)}

\* The node a Test Step was made of.
NodeOfStep(st) ==
    CHOOSE q \in 1..Len(nodes) : lineNumber(q) + 1 = st.LineNumber

\* C10 as stated: a document with N distinct test-start markers yields
\* exactly N groups, and every Content Unit of a group lies after a
\* test-start marker with no test-end marker between the two.
C10_OneGroupPerMarker ==
    (Converted /\ Len(nodes) > 0) =>
        /\ Len(specs) =
              Cardinality({TestStartName(p) :
                              p \in {r \in 1..Len(nodes) : IsTestStart(r)}})
        /\ \A sl \in Slots :
              LET q == NodeOfStep(specs[sl[1]].Steps[sl[2]]) IN
              \E p \in 1..(q - 1) :
                  /\ IsTestStart(p)
                  /\ \A r \in (p + 1)..(q - 1) : ~IsTestEnd(r)

\* The Test Unit key in force at node q: the name of the nearest test-start
\* marker before q when no test-end marker lies between, else the empty key.
KeyInForce(q) ==
    LET ms == {p \in 1..(q - 1) : IsTestStart(p) \/ IsTestEnd(p)}
        last == CHOOSE p \in ms : \A r \in ms : r <= p
    IN  IF ms = {} \/ IsTestEnd(last) THEN <<>> ELSE TestStartName(last)

\* C10, amended: extraction followed by aggregation yields exactly one group
\* for each distinct key in force at some Content Unit, the empty key of the
\* units outside every marker pair included, and none for a marker that has
\* no Content Unit; the group of a key holds exactly the Content Units that
\* key is in force at, the group of the empty key being named after the file.
C10_GroupPerKeyInForce ==
    (Converted /\ Len(nodes) > 0) =>
        LET keys == {KeyInForce(q) : q \in TaggedBlocks} IN
        /\ convErr = NoError
        /\ Len(specs) = Cardinality(keys)
        /\ \A s \in 1..Len(specs) :
              \E key \in keys :
                  /\ specs[s].TestName =
                        IF key = <<>> THEN <<"guide">> ELSE key
                  /\ {specs[s].Steps[j].LineNumber :
                         j \in 1..Len(specs[s].Steps)}
                       = {lineNumber(q) + 1 :
                             q \in {r \in TaggedBlocks : KeyInForce(r) = key}}

\* One marker pair with a tagged block inside and a tagged block after it:
\* two groups, the second named after the file.
C10_Witness ==
    /\ Converted
    /\ Len(nodes) = 4
    /\ IsTestStart(1) /\ 2 \in TaggedBlocks /\ IsTestEnd(3)
    /\ 4 \in TaggedBlocks
    /\ Len(specs) = 2
    /\ specs[1].TestName = <<"A">>
    /\ specs[2].TestName = <<"guide">>

\* ------------- SpecNested: one Test Unit enclosing two Step Groups

\* Tagged blocks of one Step Group.
MaxGroupBlocks == 2

StepStartMarker(name) ==
    Node("HTMLBlock", 0,
         <<"<!-- test-step-start:", " ", name, " ", "-->", "\n">>, <<>>)

StepEndMarker ==
    Node("HTMLBlock", 0, <<"<!-- test-step-end", " ", "-->", "\n">>, <<>>)

EndMarker == Node("HTMLBlock", 0, <<"<!-- test-end", " ", "-->", "\n">>, <<>>)

TaggedFence == Node("FencedCodeBlock", 0, EchoBody, <<"go-e2e-step">>)

\* What one Step Group pair encloses: tagged blocks, at least one, which a
\* sub-heading or a paragraph may precede.
GroupBodies ==
    {pre \o body :
        pre \in {<<>>, <<Node("Heading", 3, <<"Sub">>, <<>>)>>,
                 <<Node("Paragraph", 0, <<"text">>, <<>>)>>},
        body \in {[i \in 1..n |-> TaggedFence] : n \in 1..MaxGroupBlocks}}

\* multi-step.md, lines 11-33: a Test Unit pair around the pairs of two
\* Step Groups, with or without a title before it.
NestedDocuments ==
    {title \o <<StartMarker("A"), StepStartMarker("S")>> \o b1
           \o <<StepEndMarker, StepStartMarker("T")>> \o b2
           \o <<StepEndMarker, EndMarker>> :
        title \in {<<>>, <<Node("Heading", 1, <<"Title">>, <<>>)>>},
        b1 \in GroupBodies, b2 \in GroupBodies}

InitNested ==
    /\ filePath = DocPath
    /\ nodes \in NestedDocuments
    /\ lines = <<>>
    /\ tags = DefaultTags
    /\ cursor = 1
    /\ currentHeading = <<>> /\ currentTestFile = <<>>
    /\ currentStepGroup = <<>>
    /\ parsed = EmptyDocument(DocPath)
    /\ tagCfg = DefaultTagConfig
    /\ cmdConfig = DefaultCommands
    /\ specs = <<>>
    /\ convErr = NoError
    /\ NoPipeline
    /\ NoCommand
    /\ NotRun
    /\ pc = "walk"

SpecNested == InitNested /\ [][NextParse]_vars

\* The Step Group keys of the parsed Content Units in first-occurrence order.
StepGroupsInOrder ==
    LET bs == parsed.Blocks
        firsts == SelectSeq([i \in 1..Len(bs) |-> i],
                     LAMBDA i : \A j \in 1..(i - 1) :
                                  bs[j].StepGroup # bs[i].StepGroup)
    IN  [k \in 1..Len(firsts) |-> bs[firsts[k]].StepGroup]

\* C11: a document with one Test Unit pair enclosing two Step Group pairs,
\* each with at least one tagged block, gives exactly two Test
\* Specifications, one per Step Group in document order, each made of the
\* Content Units of its Step Group, both with the same describe label.
C11_SpecPerStepGroup ==
    Converted =>
        /\ Len(StepGroupsInOrder) = 2
        /\ Len(specs) = 2
        /\ specs[1].DescribeBlock = specs[2].DescribeBlock
        /\ \A s \in 1..2 :
              {specs[s].Steps[j].LineNumber : j \in 1..Len(specs[s].Steps)}
                = {parsed.Blocks[i].LineNumber :
                      i \in {k \in 1..Len(parsed.Blocks) :
                                parsed.Blocks[k].StepGroup
                                   = StepGroupsInOrder[s]}}

\* The Content Unit a Test Step was made of.
UnitOfStep(st) ==
    parsed.Blocks[CHOOSE i \in 1..Len(parsed.Blocks) :
                      parsed.Blocks[i].LineNumber = st.LineNumber]

\* C12: the test name of every Test Specification is the Step Group key of
\* its Content Units when that key is not empty, else their Test Unit key
\* when not empty, else the file name without directory and extension.
C12_TestNamePrecedence ==
    (Converted /\ filePath = DocPath) =>
        \A sl \in Slots :
            LET unit == UnitOfStep(specs[sl[1]].Steps[sl[2]]) IN
            specs[sl[1]].TestName =
                IF unit.StepGroup # <<>> THEN unit.StepGroup
                ELSE IF unit.TestGroup # <<>> THEN unit.TestGroup
                ELSE <<"guide">>

\* What Convert does: the Test Unit key when not empty, else the file name.
C12_TestUnitKeyOrFileName ==
    (Converted /\ filePath = DocPath) =>
        \A sl \in Slots :
            LET unit == UnitOfStep(specs[sl[1]].Steps[sl[2]]) IN
            specs[sl[1]].TestName =
                IF unit.TestGroup # <<>> THEN unit.TestGroup ELSE <<"guide">>

IsStepStart(p) ==
    /\ nodes[p].Kind = "HTMLBlock"
    /\ HasPrefix(TrimSpace(nodes[p].Text), <<"<!-- test-step-start:">>)

IsStepEnd(p) ==
    /\ nodes[p].Kind = "HTMLBlock"
    /\ HasPrefix(TrimSpace(nodes[p].Text), <<"<!-- test-step-end">>)

\* The Step Group key in force at node q, read off the markers before q.
StepKeyInForce(q) ==
    LET ms == {p \in 1..(q - 1) : IsStepStart(p) \/ IsStepEnd(p)}
        last == CHOOSE p \in ms : \A r \in ms : r <= p
    IN  IF ms = {} \/ IsStepEnd(last) THEN <<>>
        ELSE MarkerName(TrimSpace(nodes[last].Text),
                        <<"<!-- test-step-start:">>)

\* The text of the nearest heading before node q.
HeadingInForce(q) ==
    LET hs == {p \in 1..(q - 1) : nodes[p].Kind = "Heading"}
    IN  IF hs = {} THEN <<>>
        ELSE nodes[CHOOSE p \in hs : \A r \in hs : r <= p].Text

NoMatch == [ok |-> FALSE, m1 |-> <<>>, m2 |-> <<>>]

\* asciidocDelimRe: a run of four or more dashes, then blanks only.
asciidocDelimRe(line) ==
    Len(line) > 0 /\ line[1] = "----" /\ TrimLeft(Tail(line)) = <<>>

\* The runs of "=" the heading expression takes, ={2,6}, and their lengths.
EqualsRun ==
    ("==" :> 2) @@ ("===" :> 3) @@ ("====" :> 4) @@ ("=====" :> 5)
    @@ ("======" :> 6)

\* asciidocHeadingRe on the untrimmed line: m1 is the run of "=", m2 the
\* text after the blank (Parse trims it, so the blanks the expression leaves
\* at its head do not matter).
asciidocHeadingRe(line) ==
    IF Len(line) >= 3 /\ line[1] \in DOMAIN EqualsRun /\ IsSpace(line[2])
    THEN [ok |-> TRUE, m1 |-> <<line[1]>>, m2 |-> SubSeq(line, 3, Len(line))]
    ELSE NoMatch

\* The longest head of s that has neither a comma nor a closing bracket.
RECURSIVE TagRun(_)
TagRun(s) ==
    IF Len(s) = 0 \/ s[1] \in {",", "]"} THEN <<>>
    ELSE <<s[1]>> \o TagRun(Tail(s))

\* asciidocSourceRe: "[source," then m1, the tag, then optionally a comma
\* and m2, the attributes, then the last "]" of the line and blanks only.
asciidocSourceRe(line) ==
    LET t == TrimRight(line) IN
    IF Len(t) >= 3 /\ t[1] = "[source," /\ t[Len(t)] = "]"
    THEN LET inner == SubSeq(t, 2, Len(t) - 1)
             m1 == TagRun(inner)
             n == Len(m1)
         IN  IF n = 0 THEN NoMatch
             ELSE IF n = Len(inner)
             THEN [ok |-> TRUE, m1 |-> m1, m2 |-> <<>>]
             ELSE IF inner[n + 1] = "," /\ n + 1 < Len(inner)
             THEN [ok |-> TRUE, m1 |-> m1,
                   m2 |-> SubSeq(inner, n + 2, Len(inner))]
             ELSE NoMatch
    ELSE NoMatch

RECURSIVE splitAsciidocAttrsFrom(_, _, _, _, _, _)
splitAsciidocAttrsFrom(s, i, parts, current, inQuote, quoteChar) ==
    IF i > Len(s)
    THEN IF Len(current) > 0 THEN Append(parts, current) ELSE parts
    ELSE LET c == s[i] IN
         IF inQuote
         THEN splitAsciidocAttrsFrom(s, i + 1, parts, Append(current, c),
                                     c # quoteChar, quoteChar)
         ELSE IF c \in {"\"", "'"}
         THEN splitAsciidocAttrsFrom(s, i + 1, parts, Append(current, c),
                                     TRUE, c)
         ELSE IF c = ","
         THEN splitAsciidocAttrsFrom(s, i + 1,
                                     IF Len(current) > 0
                                     THEN Append(parts, current) ELSE parts,
                                     <<>>, FALSE, quoteChar)
         ELSE splitAsciidocAttrsFrom(s, i + 1, parts, Append(current, c),
                                     FALSE, quoteChar)

splitAsciidocAttrs(s) == splitAsciidocAttrsFrom(s, 1, <<>>, <<>>, FALSE, "")

RECURSIVE AsciidocAttributes(_, _)
AsciidocAttributes(parts, attrs) ==
    IF Len(parts) = 0 THEN attrs
    ELSE LET part == TrimSpace(parts[1])
             idx == Index(part, <<"=">>)
         IN  AsciidocAttributes(Tail(parts),
                 IF idx > 1
                 THEN Put(attrs, TrimSpace(SubSeq(part, 1, idx - 1)),
                          TrimQuotes(TrimSpace(SubSeq(part, idx + 1,
                                                      Len(part)))))
                 ELSE attrs)

parseAsciidocAttrs(s) == AsciidocAttributes(splitAsciidocAttrs(s), <<>>)

\* The branch of the loop body a line takes.
IsMarkerLine(trimmed) ==
    \/ HasPrefix(trimmed, <<"// test-start:">>)
    \/ HasPrefix(trimmed, <<"// test-end">>)
    \/ HasPrefix(trimmed, <<"// test-step-start:">>)
    \/ HasPrefix(trimmed, <<"// test-step-end">>)

LineBranch(line) ==
    IF IsMarkerLine(TrimSpace(line)) THEN "marker"
    ELSE IF asciidocHeadingRe(line).ok THEN "heading"
    ELSE IF asciidocSourceRe(line).ok THEN "source"
    ELSE "other"

\* Parse's locals before its loop; i counts lines from 1.
AsciiDocStart(path) ==
    [i |-> 1, currentHeading |-> <<>>, currentTestFile |-> <<>>,
     currentStepGroup |-> <<>>,
     parsed |-> [EmptyDocument(path) EXCEPT !.FileType = <<"asciidoc">>]]

\* Lines 57-74: a marker line.
scanMarker(trimmed, st) ==
    IF HasPrefix(trimmed, <<"// test-start:">>)
    THEN LET name == TrimSpace(TrimPrefix(trimmed, <<"// test-start:">>))
         IN  [st EXCEPT !.i = @ + 1, !.currentTestFile = name,
                        !.parsed.Metadata = Put(@, "test-start", name)]
    ELSE IF HasPrefix(trimmed, <<"// test-end">>)
    THEN [st EXCEPT !.i = @ + 1, !.currentTestFile = <<>>]
    ELSE IF HasPrefix(trimmed, <<"// test-step-start:">>)
    THEN [st EXCEPT !.i = @ + 1,
                    !.currentStepGroup =
                        TrimSpace(TrimPrefix(trimmed,
                                             <<"// test-step-start:">>))]
    ELSE [st EXCEPT !.i = @ + 1, !.currentStepGroup = <<>>]

\* Lines 77-86: a heading line.
scanHeading(line, st) ==
    LET m == asciidocHeadingRe(line) IN
    [st EXCEPT !.i = @ + 1,
               !.parsed.Headings =
                   Append(@, [Level |-> EqualsRun[m.m1[1]] - 1,
                              Text |-> TrimSpace(m.m2), Line |-> st.i]),
               !.currentHeading = TrimSpace(m.m2)]

\* The closing delimiter of the content that starts at line i, or one past
\* the last line.
RECURSIVE ContentEnd(_, _)
ContentEnd(ls, i) ==
    IF i <= Len(ls) /\ ~asciidocDelimRe(ls[i]) THEN ContentEnd(ls, i + 1)
    ELSE i

\* Lines 89-132: a source directive.  The locals are as the next iteration
\* finds them, the loop's own i++ included.
scanSource(ls, tagSet, st) ==
    LET m == asciidocSourceRe(ls[st.i])
        tag == TrimSpace(m.m1)
        attrs == IF m.m2 # <<>> THEN parseAsciidocAttrs(m.m2) ELSE <<>>
        delim == st.i + 1
    IN  IF tag \notin tagSet THEN [st EXCEPT !.i = @ + 1]
        ELSE IF delim > Len(ls) THEN [st EXCEPT !.i = delim]
        ELSE IF ~asciidocDelimRe(ls[delim]) THEN [st EXCEPT !.i = delim + 1]
        ELSE LET close == ContentEnd(ls, delim + 1)
                 block == [Tag |-> tag,
                           Content |-> Join(SubSeq(ls, delim + 1, close - 1),
                                            <<"\n">>),
                           LineNumber |-> delim + 1,
                           Attributes |-> attrs,
                           Context |-> st.currentHeading,
                           TestGroup |-> st.currentTestFile,
                           StepGroup |-> st.currentStepGroup]
             IN  [st EXCEPT !.i = close + 1,
                            !.parsed.Blocks = Append(@, block)]

\* One iteration of the loop of lines 51-133.
scanLine(ls, tagSet, st) ==
    LET line == ls[st.i]
        branch == LineBranch(line)
    IN  IF branch = "marker" THEN scanMarker(TrimSpace(line), st)
        ELSE IF branch = "heading" THEN scanHeading(line, st)
        ELSE IF branch = "source" THEN scanSource(ls, tagSet, st)
        ELSE [st EXCEPT !.i = @ + 1]

\* The loop from the locals st to its end.
RECURSIVE scanFrom(_, _, _)
scanFrom(ls, tagSet, st) ==
    IF st.i > Len(ls) THEN st
    ELSE scanFrom(ls, tagSet, scanLine(ls, tagSet, st))

\* AsciiDocParser.Parse as a function of its arguments.
AsciiDocParse(path, ls, tagSet) ==
    scanFrom(ls, tagSet, AsciiDocStart(path)).parsed

\* ----------------------- SpecAdoc: the AsciiDoc loop, a line at a step

\* Most elements a document of this specification is made of.
MaxElems == 3

AdocPath == <<"docs", "/", "guide", ".adoc">>
AdocDelim == <<"----">>
AdocEcho == <<"echo", " ", "hi">>

\* A listing block: its directive, the delimiters and one body line.
AdocBlock(directive, body) == <<directive, AdocDelim, body, AdocDelim>>

\* The elements documents are made of: the four markers, a heading, a
\* tagged block without and with attributes, untagged blocks whose body is
\* a command, a line that reads as a marker and a line that reads as a
\* heading, and a paragraph.
AdocElements ==
    {<< <<"// test-start:", " ", "A">> >>,
     << <<"// test-end">> >>,
     << <<"// test-step-start:", " ", "S">> >>,
     << <<"// test-step-end">> >>,
     << <<"==", " ", "Title">> >>,
     AdocBlock(<<"[source,", "go-e2e-step", "]">>, AdocEcho),
     AdocBlock(<<"[source,", "go-e2e-step", ",", "timeout", "=", "60s", "]">>,
               AdocEcho),
     AdocBlock(<<"[source,", "bash", "]">>, AdocEcho),
     AdocBlock(<<"[source,", "bash", "]">>, <<"// test-start:", " ", "X">>),
     AdocBlock(<<"[source,", "bash", "]">>, <<"===", " ", "Inner">>),
     << <<"text">> >>}

RECURSIVE Concat(_)
Concat(ss) == IF Len(ss) = 0 THEN <<>> ELSE ss[1] \o Concat(Tail(ss))

InitAdoc ==
    /\ filePath = AdocPath
    /\ nodes = <<>>
    /\ lines \in {Concat(es) : es \in SeqsUpTo(AdocElements, MaxElems)}
    /\ tags = DefaultTags
    /\ cursor = 1
    /\ currentHeading = <<>> /\ currentTestFile = <<>>
    /\ currentStepGroup = <<>>
    /\ parsed = AsciiDocStart(AdocPath).parsed
    /\ tagCfg = DefaultTagConfig
    /\ cmdConfig = DefaultCommands
    /\ specs = <<>>
    /\ convErr = NoError
    /\ NoPipeline
    /\ NoCommand
    /\ NotRun
    /\ pc = "scan"

\* Parse's locals as the loop holds them.
Locals ==
    [i |-> cursor, currentHeading |-> currentHeading,
     currentTestFile |-> currentTestFile,
     currentStepGroup |-> currentStepGroup, parsed |-> parsed]

\* The loop is at a line of the given branch.
AtLine(branch) ==
    pc = "scan" /\ cursor <= Len(lines) /\ LineBranch(lines[cursor]) = branch

\* One iteration of the loop: the locals after it.
Iterate ==
    LET st == scanLine(lines, tags, Locals) IN
    /\ cursor' = st.i
    /\ currentHeading' = st.currentHeading
    /\ currentTestFile' = st.currentTestFile
    /\ currentStepGroup' = st.currentStepGroup
    /\ parsed' = st.parsed

ScanMarker ==
    /\ AtLine("marker")
    /\ Iterate
    /\ UNCHANGED <<filePath, nodes, lines, tags, tagCfg,
                   pipelineVars, specs, convErr,
                   genVars, runVars, pc>>

ScanHeading ==
    /\ AtLine("heading")
    /\ Iterate
    /\ UNCHANGED <<filePath, nodes, lines, tags, tagCfg,
                   pipelineVars, specs, convErr,
                   genVars, runVars, pc>>

ScanSource ==
    /\ AtLine("source")
    /\ Iterate
    /\ UNCHANGED <<filePath, nodes, lines, tags, tagCfg,
                   pipelineVars, specs, convErr,
                   genVars, runVars, pc>>

\* Any other line: no branch of the loop body takes it.
ScanOther ==
    /\ AtLine("other")
    /\ Iterate
    /\ UNCHANGED <<filePath, nodes, lines, tags, tagCfg,
                   pipelineVars, specs, convErr,
                   genVars, runVars, pc>>

\* return parsed, nil
AsciiDocReturn ==
    /\ pc = "scan" /\ cursor > Len(lines)
    /\ pc' = "parsed"
    /\ UNCHANGED <<docVars, genVars, runVars>>

NextAdoc ==
    \/ ScanMarker
    \/ ScanHeading
    \/ ScanSource
    \/ ScanOther
    \/ AsciiDocReturn
    \/ Convert

SpecAdoc == InitAdoc /\ [][NextAdoc]_vars

\* ------------------------------------------------------------- C14

\* The lines of the untagged listing blocks of the document: the directive,
\* both delimiters and the body of every block whose tag is not in the tag
\* set.
UntaggedLines ==
    {k \in 1..Len(lines) :
        \E q \in 1..(Len(lines) - 1) :
            /\ asciidocSourceRe(lines[q]).ok
            /\ TrimSpace(asciidocSourceRe(lines[q]).m1) \notin tags
            /\ asciidocDelimRe(lines[q + 1])
            /\ q <= k /\ k <= ContentEnd(lines, q + 2)}

\* The lines before line i that belong to no untagged block.
RECURSIVE KeptBefore(_)
KeptBefore(i) ==
    IF i <= 1 THEN <<>>
    ELSE IF (i - 1) \in UntaggedLines THEN KeptBefore(i - 1)
    ELSE Append(KeptBefore(i - 1), lines[i - 1])

WithoutLine(blocks) ==
    [k \in 1..Len(blocks) |->
        [f \in (DOMAIN blocks[k]) \ {"LineNumber"} |-> blocks[k][f]]]

\* C14: in the AsciiDoc extractor a block whose tag is not in the tag set
\* emits no Content Unit and leaves the heading, Test Unit and Step Group
\* cursors as they were, whatever its body holds: at every line the loop
\* reaches, the cursors and the Content Units emitted so far (their line
\* numbers aside) are those of the same document with its untagged blocks
\* taken out.
C14_UntaggedBlockInert ==
    (lines # <<>> /\ pc = "scan") =>
        LET absent == scanFrom(KeptBefore(cursor), tags,
                               AsciiDocStart(filePath))
        IN  /\ currentHeading = absent.currentHeading
            /\ currentTestFile = absent.currentTestFile
            /\ currentStepGroup = absent.currentStepGroup
            /\ WithoutLine(parsed.Blocks) = WithoutLine(absent.parsed.Blocks)

\* ------------------- SpecInfo: the Markdown walk over varied info strings

\* Longest info string of a fenced block, in tokens.
MaxInfoLen == 5

\* The tokens info strings are drawn from: a tag, a blank, a quote and the
\* three tokens of an attribute, whose key is the one parseInfoString keeps
\* the tag under.
InfoTokens == {"go-e2e-step", " ", "'", "_tag", "=", "bash"}

\* The info string as goldmark hands it over: blanks trimmed at both ends.
InfoStrings ==
    {s \in SeqsUpTo(InfoTokens, MaxInfoLen) : s # <<>> /\ TrimSpace(s) = s}

InitInfo ==
    /\ filePath = DocPath
    /\ \E info \in InfoStrings :
          nodes = <<Node("Heading", 1, <<"Title">>, <<>>),
                    StartMarker("A"),
                    Node("Paragraph", 0, <<"text">>, <<>>),
                    Node("FencedCodeBlock", 0, EchoBody, info)>>
    /\ lines = <<>>
    /\ tags = DefaultTags
    /\ cursor = 1
    /\ currentHeading = <<>> /\ currentTestFile = <<>>
    /\ currentStepGroup = <<>>
    /\ parsed = EmptyDocument(DocPath)
    /\ tagCfg = DefaultTagConfig
    /\ cmdConfig = DefaultCommands
    /\ specs = <<>>
    /\ convErr = NoError
    /\ NoPipeline
    /\ NoCommand
    /\ NotRun
    /\ pc = "walk"

SpecInfo == InitInfo /\ [][NextParse]_vars

\* ------------------------------------------------------------- C15

\* C15: every Content Unit an extractor has emitted carries a Tag that is a
\* member of the configured tag set, whatever follows the tag in the info
\* string of its block.
C15_TagInTagSet ==
    \A k \in 1..Len(parsed.Blocks) : parsed.Blocks[k].Tag \in tags

\* ------- SpecCross: one abstract document written in both syntaxes

\* The attributes a tagged block may carry, as key, "=", value: a plain
\* value, a quoted value with a blank in it, and the key under which the
\* Markdown extractor keeps the tag.
CrossAttrs ==
    {<<"timeout", "=", "60s">>,
     <<"step-name", "=", "\"", "Deploy", " ", "app", "\"">>,
     <<"_tag", "=", "bash">>}

\* The abstract elements: a heading, the four markers, a paragraph and a
\* tagged block with up to two attributes.
CrossElements ==
    {[kind |-> k, attrs |-> <<>>] :
        k \in {"heading", "test-start", "test-end", "test-step-start",
               "test-step-end", "paragraph"}}
    \cup {[kind |-> "block", attrs |-> as] : as \in SeqsUpTo(CrossAttrs, 2)}

\* The attribute tokens after the tag, each led by the separator.
RECURSIVE WithSeparator(_, _)
WithSeparator(attrs, sep) ==
    IF Len(attrs) = 0 THEN <<>>
    ELSE <<sep>> \o attrs[1] \o WithSeparator(Tail(attrs), sep)

\* An element in Markdown syntax, as the node goldmark makes of it.
MarkdownOf(e) ==
    CASE e.kind = "heading" -> Node("Heading", 1, <<"Title">>, <<>>)
      [] e.kind = "test-start" -> StartMarker("A")
      [] e.kind = "test-end" -> EndMarker
      [] e.kind = "test-step-start" -> StepStartMarker("S")
      [] e.kind = "test-step-end" -> StepEndMarker
      [] e.kind = "paragraph" -> Node("Paragraph", 0, <<"text">>, <<>>)
      [] e.kind = "block" ->
            Node("FencedCodeBlock", 0, EchoBody,
                 <<"go-e2e-step">> \o WithSeparator(e.attrs, " "))

\* An element in AsciiDoc syntax: its lines and a blank line after them.
AsciiDocOf(e) ==
    CASE e.kind = "heading" -> << <<"==", " ", "Title">>, <<>> >>
      [] e.kind = "test-start" -> << <<"// test-start:", " ", "A">>, <<>> >>
      [] e.kind = "test-end" -> << <<"// test-end">>, <<>> >>
      [] e.kind = "test-step-start" ->
            << <<"// test-step-start:", " ", "S">>, <<>> >>
      [] e.kind = "test-step-end" -> << <<"// test-step-end">>, <<>> >>
      [] e.kind = "paragraph" -> << <<"text">>, <<>> >>
      [] e.kind = "block" ->
            AdocBlock(<<"[source,", "go-e2e-step">>
                          \o WithSeparator(e.attrs, ",") \o <<"]">>,
                      AdocEcho) \o << <<>> >>

InitCross ==
    /\ filePath = DocPath
    /\ \E es \in SeqsUpTo(CrossElements, MaxElems) :
          /\ nodes = [k \in 1..Len(es) |-> MarkdownOf(es[k])]
          /\ lines = Concat([k \in 1..Len(es) |-> AsciiDocOf(es[k])])
    /\ tags = DefaultTags
    /\ cursor = 1
    /\ currentHeading = <<>> /\ currentTestFile = <<>>
    /\ currentStepGroup = <<>>
    /\ parsed = EmptyDocument(DocPath)
    /\ tagCfg = DefaultTagConfig
    /\ cmdConfig = DefaultCommands
    /\ specs = <<>>
    /\ convErr = NoError
    /\ NoPipeline
    /\ NoCommand
    /\ NotRun
    /\ pc = "walk"

SpecCross == InitCross /\ [][NextParse]_vars

\* ------------------------------------------------------------- C16

\* What the cross-format contract compares of a Content Unit.
Structure(block) ==
    [Tag |-> block.Tag, Attributes |-> block.Attributes,
     TestGroup |-> block.TestGroup, StepGroup |-> block.StepGroup]

\* C16: for one abstract sequence of headings, markers and tagged blocks
\* with attributes, written in Markdown and in AsciiDoc, the two extractors
\* produce Content Unit sequences of the same length whose i-th units agree
\* on tag, attribute map, Test Unit key and Step Group key.
C16_CrossFormat ==
    pc = "parsed" =>
        LET adoc == AsciiDocParse(AdocPath, lines, tags).Blocks IN
        /\ Len(parsed.Blocks) = Len(adoc)
        /\ \A i \in 1..Len(adoc) :
              Structure(parsed.Blocks[i]) = Structure(adoc[i])

\* ------------- SpecLabels: Convert on documents with varied headings

\* Most headings of a document of this specification.
MaxHeadings == 3

\* Headings of three levels and two texts, at consecutive lines.
HeadingSeqs ==
    {[k \in 1..Len(hs) |-> [Level |-> hs[k][1], Text |-> hs[k][2],
                            Line |-> k]] :
        hs \in SeqsUpTo((1..3) \X {<<"Guide">>, <<"Setup">>}, MaxHeadings)}

\* Document paths: in a directory, bare, and without an extension.
LabelPaths == {DocPath, <<"README", ".md">>, <<"notes">>}

InitLabels ==
    /\ filePath \in LabelPaths
    /\ nodes = <<>>
    /\ lines = <<>>
    /\ tags = DefaultTags
    /\ cursor = 1
    /\ currentHeading = <<>> /\ currentTestFile = <<>>
    /\ currentStepGroup = <<>>
    /\ \E hs \in HeadingSeqs, g \in TestGroups :
          parsed = [EmptyDocument(filePath) EXCEPT
                       !.Headings = hs,
                       !.Blocks = <<[Tag |-> <<"go-e2e-step">>,
                                     Content |-> KubectlGetPods,
                                     LineNumber |-> 10,
                                     Attributes |-> <<>>, Context |-> <<>>,
                                     TestGroup |-> <<"A">>,
                                     StepGroup |-> <<>>],
                                    [Tag |-> <<"go-e2e-step">>,
                                     Content |-> KubectlGetPods,
                                     LineNumber |-> 20,
                                     Attributes |-> <<>>, Context |-> <<>>,
                                     TestGroup |-> g,
                                     StepGroup |-> <<>>]>>]
    /\ tagCfg = DefaultTagConfig
    /\ cmdConfig = DefaultCommands
    /\ specs = <<>>
    /\ convErr = NoError
    /\ NoPipeline
    /\ NoCommand
    /\ NotRun
    /\ pc = "parsed"

SpecLabels == InitLabels /\ [][NextConv]_vars

\* ------------------------------------------------------------- C17

\* The headings of the document that have the given level, by position.
HeadingsOfLevel(l) ==
    {i \in 1..Len(parsed.Headings) : parsed.Headings[i].Level = l}

FirstOf(S) == CHOOSE i \in S : \A j \in S : i <= j

\* The file name without its directory and extension.
FileStem ==
    LET name == Base(filePath)
    IN  IF Len(name) > 1 /\ name[Len(name)] = ".md"
        THEN SubSeq(name, 1, Len(name) - 1) ELSE name

MaxAttrBlocks == 2

\* The alias table with a second key for the template name.
AttrTagConfig ==
    [Attributes |-> [DefaultAttributes EXCEPT
                        !.template = << <<"template">>, <<"tmpl">> >>]]

\* Template attributes of a block: none, either key, both keys.
TemplateAttrs ==
    {<<>>,
     Put(<<>>, <<"template">>, <<"basic">>),
     Put(<<>>, <<"template">>, <<"full">>),
     Put(<<>>, <<"tmpl">>, <<"lite">>),
     Put(Put(<<>>, <<"template">>, <<"basic">>), <<"tmpl">>, <<"lite">>)}

\* Expected-exit attributes of a block: none, an integer, a word, and a
\* word under the first alias with an integer under the second.
ExitAttrs ==
    {<<>>,
     Put(<<>>, <<"expected">>, <<"2">>),
     Put(<<>>, <<"expected">>, <<"x">>),
     Put(Put(<<>>, <<"expected">>, <<"x">>), <<"exit-code">>, <<"2">>)}

\* The two maps in one.
Merge(a, b) ==
    [k \in (DOMAIN a) \cup (DOMAIN b) |-> IF k \in DOMAIN a THEN a[k] ELSE b[k]]

AttrBlockSeqs(n) ==
    {[k \in 1..n |-> [Tag |-> <<"go-e2e-step">>, Content |-> KubectlGetPods,
                      LineNumber |-> 10 * k, Attributes |-> as[k],
                      Context |-> <<>>, TestGroup |-> gs[k],
                      StepGroup |-> <<>>]] :
        as \in [1..n -> {Merge(t, e) : t \in TemplateAttrs, e \in ExitAttrs}],
        gs \in [1..n -> {<<>>, <<"A">>}]}

InitAttrs ==
    /\ filePath = DocPath
    /\ nodes = <<>>
    /\ lines = <<>>
    /\ tags = DefaultTags
    /\ cursor = 1
    /\ currentHeading = <<>> /\ currentTestFile = <<>>
    /\ currentStepGroup = <<>>
    /\ \E n \in 1..MaxAttrBlocks : \E bs \in AttrBlockSeqs(n) :
          parsed = [EmptyDocument(DocPath) EXCEPT !.Blocks = bs]
    /\ tagCfg = AttrTagConfig
    /\ \E d \in 0..MaxExit :
          cmdConfig = [DefaultCommands EXCEPT !.DefaultExpectedExitCode = d]
    /\ specs = <<>>
    /\ convErr = NoError
    /\ NoPipeline
    /\ NoCommand
    /\ NotRun
    /\ pc = "parsed"

SpecAttrs == InitAttrs /\ [][NextConv]_vars

\* ------------------------------------------------------------- C18

\* The Content Units of the document that belong to the Test Specification
\* of the given name, in document order.
UnitsOfSpec(testName) ==
    SelectSeq(parsed.Blocks,
              LAMBDA b : (IF b.TestGroup = <<>> THEN FileStem ELSE b.TestGroup)
                         = testName)

\* The first value found in a sequence of Content Units under the given
\* alias keys, the units in order and within a unit the keys in order;
\* empty when no unit has one of the keys.
RECURSIVE FirstFound(_, _, _)
FirstFound(units, keys, k) ==
    IF Len(units) = 0 THEN <<>>
    ELSE IF k > Len(keys) THEN FirstFound(Tail(units), keys, 1)
    ELSE IF keys[k] \in DOMAIN units[1].Attributes
    THEN units[1].Attributes[keys[k]]
    ELSE FirstFound(units, keys, k + 1)

\* C18: the template-override name of a Test Specification is the first
\* attribute value found when its Content Units are scanned in document
\* order and, within a unit, the template alias keys in list order; a later
\* unit never replaces a value found earlier; it is empty when no unit has
\* such an attribute.
C18_FirstTemplateWins ==
    Converted =>
        \A k \in 1..Len(specs) :
            specs[k].TemplateName =
                FirstFound(UnitsOfSpec(specs[k].TestName),
                           tagCfg.Attributes.template, 1)

\* ------------------------------------------------------------- C19

\* The value of the first expected-exit-code alias key a Content Unit has,
\* and whether it has one.
ExitAliases == tagCfg.Attributes.expected_exit_code

HasExitAttr(b) == \E k \in 1..Len(ExitAliases) : ExitAliases[k] \in DOMAIN b.Attributes

ExitAttr(b) ==
    b.Attributes[ExitAliases[FirstOf({k \in 1..Len(ExitAliases) :
                                         ExitAliases[k] \in DOMAIN b.Attributes})]]

IsInteger(s) ==
    LET digits == IF Len(s) > 0 /\ s[1] \in {"+", "-"} THEN Tail(s) ELSE s
    IN  /\ Len(digits) > 0
        /\ \A i \in 1..Len(digits) :
              digits[i] \in {"0", "1", "2", "3", "4", "5", "6", "7", "8", "9"}

\* The Test Step made of the Content Unit at the given line.
StepAtLine(n) ==
    LET hits == {<<k, i>> \in (1..Len(specs)) \X (1..MaxAttrBlocks) :
                    i <= Len(specs[k].Steps)
                    /\ specs[k].Steps[i].LineNumber = n}
        at == CHOOSE h \in hits : TRUE
    IN  specs[at[1]].Steps[at[2]]

\* C19: when the expected-exit-code attribute of a Content Unit (the first
\* alias key present) has a value that does not parse as an integer,
\* conversion raises no error and the Test Step's expected exit code is the
\* configured default, as it is when the attribute is absent.
C19_NonIntegerExitFallsBack ==
    Converted =>
        /\ convErr = NoError
        /\ \A q \in 1..Len(parsed.Blocks) :
              LET b == parsed.Blocks[q] IN
              (~HasExitAttr(b) \/ ~IsInteger(ExitAttr(b))) =>
                  StepAtLine(b.LineNumber).ExpectedExit =
                      cmdConfig.DefaultExpectedExitCode

\* ---------- SpecDur: GenerateGoCode on a retried command, varied intervals

\* Longest retry-interval string, in characters.
MaxDurLen == 4

\* The characters retry intervals are drawn from: a digit, the unit letters
\* and a letter that is neither.
DurChars == {"1", "h", "m", "s", "a"}

InitDur ==
    /\ command = <<"k">>
    /\ expectedExit \in 0..MaxExit
    /\ timeout = <<>>
    /\ retryCount \in 1..MaxRetry
    /\ retryInterval \in SeqsUpTo(DurChars, MaxDurLen)
    /\ cmdConfig = DefaultCommands
    /\ logical = <<>>
    /\ scaffold = <<>>
    /\ goCode = <<>>
    /\ NotRun
    /\ NoDocument
    /\ pc = "start"

SpecDur == InitDur /\ [][NextGen]_vars

\* ------------------------------------------------------------- C20

\* The argument of the pause of the retry loop.
PauseExpr(code) ==
    LET p == CHOOSE p \in Positions(code, "time.Sleep(") : TRUE
        q == CHOOSE q \in (p + 1)..Len(code) :
                 code[q] = ")" /\ \A k \in (p + 1)..(q - 1) : code[k] # ")"
    IN  SubSeq(code, p + 1, q - 1)

\* A duration literal: digits, then one of the units ms, s and m.
IsDurationLiteral(d) ==
    \E u \in {<<"m", "s">>, <<"s">>, <<"m">>} :
        /\ HasSuffix(d, u)
        /\ Len(d) > Len(u)
        /\ \A i \in 1..(Len(d) - Len(u)) :
              d[i] \in {"0", "1", "2", "3", "4", "5", "6", "7", "8", "9"}

\* The expression that parses the string when the generated code runs.
RuntimeParse(d) ==
    <<"func() time.Duration { d, _ := time.ParseDuration(">>
    \o Quote(d) \o <<"); return d }()">>

\* C20: for a retry-interval string that is not a valid duration literal,
\* synthesis yields a fragment whose pause is a runtime-parse expression of
\* that string; a compile-time duration expression is emitted only for valid
\* literals.
C20_InvalidDurationDeferred ==
    Generated =>
        /\ Positions(goCode, "time.Sleep(") # {}
        /\ ~IsDurationLiteral(retryInterval) =>
               PauseExpr(goCode) = RuntimeParse(retryInterval)

\* ------------- SpecNames: Convert on documents with varied command text

\* A first line of 52 bytes whose fiftieth byte ends a token.
LongLine ==
    <<"echo", " ", "kubectl", " ", "kubectl", " ", "kubectl", " ", "kubectl",
      " ", "kubectl", " ", "pods", " ", "hi">>

\* Command bodies: the four verbs with arguments, a verb alone, another
\* word, two lines, a long first line, and a blank body.
NameContents ==
    {KubectlGetPods,
     <<"helm", " ", "install", " ", "app">>,
     <<"docker", " ", "ps">>,
     <<"curl", " ", "-s", " ", "url">>,
     <<"kubectl">>,
     <<"echo", " ", "hi">>,
     <<" ", "helm", " ", " ", "list", "\n", "docker", " ", "ps">>,
     LongLine,
     <<" ", "\n">>}

NameAttrs == {<<>>, Put(<<>>, <<"step-name">>, <<"Deploy">>)}

NameBlockSeqs(n) ==
    {[k \in 1..n |-> [Tag |-> <<"go-e2e-step">>, Content |-> cs[k],
                      LineNumber |-> 10 * k, Attributes |-> as[k],
                      Context |-> <<>>, TestGroup |-> gs[k],
                      StepGroup |-> <<>>]] :
        cs \in [1..n -> NameContents], as \in [1..n -> NameAttrs],
        gs \in [1..n -> {<<>>, <<"A">>}]}

InitNames ==
    /\ filePath = DocPath
    /\ nodes = <<>>
    /\ lines = <<>>
    /\ tags = DefaultTags
    /\ cursor = 1
    /\ currentHeading = <<>> /\ currentTestFile = <<>>
    /\ currentStepGroup = <<>>
    /\ \E n \in 1..MaxAttrBlocks : \E bs \in NameBlockSeqs(n) :
          parsed = [EmptyDocument(DocPath) EXCEPT !.Blocks = bs]
    /\ tagCfg = DefaultTagConfig
    /\ cmdConfig = DefaultCommands
    /\ specs = <<>>
    /\ convErr = NoError
    /\ NoPipeline
    /\ NoCommand
    /\ NotRun
    /\ pc = "parsed"

SpecNames == InitNames /\ [][NextConv]_vars

\* ------------------------------------------------------------- C21

\* The first line of a command, blanks trimmed, and its words.
FirstLineOf(cmd) ==
    LET c == TrimSpace(cmd)
        nl == {i \in 1..Len(c) : c[i] = "\n"}
    IN  TrimSpace(IF nl = {} THEN c ELSE SubSeq(c, 1, FirstOf(nl) - 1))

WordsOf(line) == Fields(line)

\* The Content Units of the document without a step-name attribute, each
\* with the Test Step made of it and its 1-based index within its group.
UnnamedUnits ==
    {q \in 1..Len(parsed.Blocks) :
        \A k \in 1..Len(tagCfg.Attributes.step_name) :
            tagCfg.Attributes.step_name[k] \notin DOMAIN parsed.Blocks[q].Attributes}

IndexInGroup(q) ==
    Cardinality({p \in 1..q :
                    parsed.Blocks[p].TestGroup = parsed.Blocks[q].TestGroup})

\* The step name the claim gives a command, with the given verbs named
\* after their first argument.
DerivedName(cmd, k, verbs) ==
    LET first == FirstLineOf(cmd)
        words == WordsOf(first)
    IN  IF Len(words) = 0 THEN <<"Step ", ToString(k)>>
        ELSE IF words[1] \in verbs /\ Len(words) > 1
        THEN words[1] \o <<" ">> \o words[2]
        ELSE IF words[1] = <<"curl">> /\ <<"curl">> \notin verbs
        THEN <<"curl request">>
        ELSE FirstBytes(first, 50)

\* C21 (as claimed): without a step-name attribute the step name is
\* "<verb> <first-argument>" when the first word of the first line is
\* kubectl, helm, docker or curl, the first line cut to 50 characters for
\* any other first word, and "Step <k>" for a blank command, k being the
\* unit's 1-based index within its group.
C21_VerbAndArgument ==
    Converted =>
        \A q \in UnnamedUnits :
            StepAtLine(parsed.Blocks[q].LineNumber).Name =
                DerivedName(parsed.Blocks[q].Content, IndexInGroup(q),
                            {<<"kubectl">>, <<"helm">>, <<"docker">>,
                             <<"curl">>})

\* C21 (amended): as claimed for kubectl, helm and docker followed by an
\* argument; a command whose first word is curl is named "curl request"
\* whatever its arguments.
C21_VerbTable ==
    Converted =>
        \A q \in UnnamedUnits :
            StepAtLine(parsed.Blocks[q].LineNumber).Name =
                DerivedName(parsed.Blocks[q].Content, IndexInGroup(q),
                            {<<"kubectl">>, <<"helm">>, <<"docker">>})

\* A curl command named "curl request" and, second in its group, a blank
\* command named by its index.
C21_Witness ==
    /\ Converted
    /\ Len(specs) = 1 /\ Len(specs[1].Steps) = 2
    /\ UnnamedUnits = {1, 2}
    /\ parsed.Blocks[1].Content = <<"curl", " ", "-s", " ", "url">>
    /\ specs[1].Steps[1].Name = <<"curl request">>
    /\ specs[1].Steps[2].Name = <<"Step ", "2">>

\* ---------------------------------------------------------------------
\* Two runs of extraction and conversion on one document.

AttributedInfo ==
    <<"go-e2e-step", " ", "name", "=", "a", " ", "timeout", "=", "5", "s">>

\* The nodes of the documents run twice: a heading, a Test Unit marker, a
\* plain fence, a fence whose info string carries two attributes, a fence
\* whose command the first default pattern blocks, and a paragraph.
TwiceNodes ==
    {Node("Heading", 1, <<"Title">>, <<>>),
     StartMarker("A"),
     TaggedFence,
     Node("FencedCodeBlock", 0, EchoBody, AttributedInfo),
     Node("FencedCodeBlock", 0, <<"rm", " ", "-rf", " ", "/", "\n">>,
          <<"go-e2e-step">>),
     Node("Paragraph", 0, <<"text">>, <<>>)}

InitTwice ==
    /\ filePath = DocPath
    /\ nodes \in SeqsUpTo(TwiceNodes, MaxBlocks)
    /\ lines = <<>>
    /\ tags = DefaultTags
    /\ cursor = 1
    /\ currentHeading = <<>> /\ currentTestFile = <<>>
    /\ currentStepGroup = <<>>
    /\ parsed = EmptyDocument(DocPath)
    /\ tagCfg = DefaultTagConfig
    /\ cmdConfig = DefaultCommands
    /\ specs = <<>>
    /\ convErr = NoError
    /\ NoPipeline
    /\ NoCommand
    /\ NotRun
    /\ pc = "walk"

\* The result of the run is kept and the pipeline is started again on the
\* same bytes and configuration: Parse begins with fresh cursors and an
\* empty document, Convert with no specifications.
Rerun ==
    /\ pc = "converted" /\ ~previous.ran
    /\ previous' = [ran |-> TRUE, specs |-> specs, err |-> convErr]
    /\ cursor' = 1
    /\ currentHeading' = <<>> /\ currentTestFile' = <<>>
    /\ currentStepGroup' = <<>>
    /\ parsed' = EmptyDocument(filePath)
    /\ specs' = <<>>
    /\ convErr' = NoError
    /\ pc' = "walk"
    /\ UNCHANGED <<filePath, nodes, lines, tags, tagCfg, generateVars, genVars,
                   runVars>>

NextTwice ==
    \/ VisitHeading
    \/ VisitFencedCodeBlock
    \/ VisitHTMLBlock
    \/ VisitOther
    \/ ParseReturn
    \/ Convert
    \/ Rerun

SpecTwice == InitTwice /\ [][NextTwice]_vars

\* C22: a second run of extraction and conversion on the same document and
\* configuration ends with the same Test Specifications in the same order,
\* step names and generated fragments included, or with the same error,
\* whatever order the range over the info string's map takes in each run.
C22_SameResult ==
    (pc = "converted" /\ previous.ran) =>
        /\ specs = previous.specs
        /\ convErr = previous.err

\* A second run has ended with a step named and timed by the attributes of
\* its fence.
C22_Witness ==
    /\ pc = "converted" /\ previous.ran
    /\ convErr = NoError
    /\ Len(specs) = 1 /\ Len(specs[1].Steps) = 2
    /\ specs[1].Steps[2].Name = <<"a">>
    /\ specs[1].Steps[2].Timeout = <<"5", "s">>

\* ------------------------------------------------ generator/generator.go
\* File names, paths and marker names are sequences of single characters.

MaxFiles == 2

UpperLetters ==
    <<"A", "B", "C", "D", "E", "F", "G", "H", "I", "J", "K", "L", "M",
      "N", "O", "P", "Q", "R", "S", "T", "U", "V", "W", "X", "Y", "Z">>

LowerLetters ==
    <<"a", "b", "c", "d", "e", "f", "g", "h", "i", "j", "k", "l", "m",
      "n", "o", "p", "q", "r", "s", "t", "u", "v", "w", "x", "y", "z">>

Range(f) == {f[i] : i \in DOMAIN f}

\* strings.ToLower, one character
ToLowerChar(c) ==
    IF c \in Range(UpperLetters)
    THEN LowerLetters[CHOOSE i \in DOMAIN UpperLetters : UpperLetters[i] = c]
    ELSE c

\* sanitizeTestFileName, lines 236-238
RECURSIVE CollapseUnderscores(_)
CollapseUnderscores(result) ==
    IF Contains(result, <<"_", "_">>)
    THEN CollapseUnderscores(ReplaceAll(result, <<"_", "_">>, <<"_">>))
    ELSE result

\* strings.Trim(result, "_")
RECURSIVE TrimUnderscores(_)
TrimUnderscores(s) ==
    IF Len(s) > 0 /\ s[1] = "_" THEN TrimUnderscores(Tail(s))
    ELSE IF Len(s) > 0 /\ s[Len(s)] = "_"
    THEN TrimUnderscores(SubSeq(s, 1, Len(s) - 1))
    ELSE s

\* sanitizeTestFileName keeping the case of the name.
sanitizeTestFileName_KeepCase(name) ==
    LET under == ReplaceAll(name, <<" ">>, <<"_">>)
        kept == SelectSeq(under,
                    LAMBDA c : c \in Range(LowerLetters) \cup Range(Digits)
                                     \cup Range(UpperLetters) \cup {"_"})
    IN  TrimUnderscores(CollapseUnderscores(kept))

sanitizeTestFileName(name) ==
    LET lower == [i \in 1..Len(name) |-> ToLowerChar(name[i])]
        under == ReplaceAll(lower, <<" ">>, <<"_">>)
        kept == SelectSeq(under,
                    LAMBDA c : c \in Range(LowerLetters) \cup Range(Digits)
                                     \cup {"_"})
    IN  TrimUnderscores(CollapseUnderscores(kept))

\* filepath.Ext: from the last dot of the last element of the path.
filepathExt(path) ==
    LET b == Base(path)
        dots == {i \in 1..Len(b) : b[i] = "."}
    IN  IF dots = {} THEN <<>>
        ELSE SubSeq(b, CHOOSE i \in dots : \A j \in dots : j <= i, Len(b))

buildOutputFilename(key, isTestFile, output) ==
    LET base == Base(key)
        name == IF isTestFile THEN sanitizeTestFileName(key)
                ELSE TrimSuffix(base, filepathExt(base))
    IN  output.FilePrefix \o name \o output.FileSuffix

SuiteFile == <<"s", "u", "i", "t", "e">> \o TestGoSuffix

\* What a file holds: text its user wrote, a rendering of specifications,
\* or the suite bootstrap.
UserContent == [kind |-> "user", specs |-> <<>>]
Rendered(groupSpecs) == [kind |-> "generated", specs |-> groupSpecs]
SuiteContent == [kind |-> "suite", specs |-> <<>>]

\* os.WriteFile into the output directory
WriteFile(d, name, content) == [d EXCEPT !.files = Put(@, name, content)]

\* cleanOutputDir, lines 336-363: a missing directory is left alone; every
\* entry ending in _test.go other than suite_test.go is removed.
cleanOutputDir(d) ==
    IF ~d.exists THEN d
    ELSE LET kept == {n \in DOMAIN d.files :
                         ~(HasSuffix(n, TestGoSuffix) /\ n # SuiteFile)}
         IN  [d EXCEPT !.files = [n \in kept |-> d.files[n]]]

\* writeSuiteFile without the dry-run return.
writeSuiteFile_NoDryRun(cfg, d) ==
    IF SuiteFile \in DOMAIN d.files THEN d
    ELSE WriteFile(d, SuiteFile, SuiteContent)

\* writeSuiteFile, lines 244-302
writeSuiteFile(cfg, d) ==
    IF SuiteFile \in DOMAIN d.files THEN d
    ELSE IF cfg.DryRun THEN d
    ELSE WriteFile(d, SuiteFile, SuiteContent)

\* DefaultRegistry.ParserFor with the two parsers the command registers and
\* no fallback.
RegisteredExtensions ==
    {<<"m", "d">>, <<"m", "a", "r", "k", "d", "o", "w", "n">>,
     <<"a", "d", "o", "c">>, <<"a", "s", "c", "i", "i", "d", "o", "c">>}

ParserFor(extension) ==
    TrimPrefix(extension, <<".">>) \in RegisteredExtensions

\* A scanned file: whether os.ReadFile succeeds, the output keys of the
\* specifications Parse and Convert make of it in order (an empty key for
\* blocks outside any marker, no key at all for a file without tagged
\* blocks), and whether Convert rejects one of its commands.
ScannedFile(path, readable, testFiles, blocked) ==
    [path |-> path, readable |-> readable, testFiles |-> testFiles,
     blocked |-> blocked]

SpecsOf(file) ==
    [i \in 1..Len(file.testFiles) |->
        [SourceFile |-> file.path, TestFile |-> file.testFiles[i]]]

ScannedFiles ==
    {ScannedFile(<<"d", "/", "a", ".", "m", "d">>, TRUE, << <<"A">> >>, FALSE),
     ScannedFile(<<"d", "/", "b", ".", "m", "d">>, TRUE,
                 << <<"a", " ", "b">>, <<"a">> >>, FALSE),
     ScannedFile(<<"e", "/", "a", ".", "m", "d">>, TRUE, << <<>> >>, FALSE),
     ScannedFile(<<"d", "/", "c", ".", "a", "d", "o", "c">>, TRUE,
                 << <<"B", "!">>, <<>> >>, FALSE),
     ScannedFile(<<"d", "/", "s", ".", "m", "d">>, TRUE,
                 << <<"S", "u", "i", "t", "e">> >>, FALSE),
     ScannedFile(<<"d", "/", "u", ".", "m", "d">>, FALSE, << <<"A">> >>, FALSE),
     ScannedFile(<<"d", "/", "n", ".", "t", "x", "t">>, TRUE, <<>>, FALSE),
     ScannedFile(<<"d", "/", "e", ".", "m", "d">>, TRUE, <<>>, FALSE),
     ScannedFile(<<"d", "/", "r", ".", "m", "d">>, TRUE, << <<"A">> >>, TRUE)}

OldGenerated == GeneratedPrefix \o <<"o", "l", "d">> \o TestGoSuffix

\* The output directory before the run: missing, empty, or holding a suite
\* file and a generated file of its user's.
Directories ==
    {NoDirectory,
     [exists |-> TRUE, files |-> <<>>],
     [exists |-> TRUE,
      files |-> Put(Put(<<>>, SuiteFile, UserContent),
                    OldGenerated, UserContent)]}

Configs ==
    [DryRun : BOOLEAN,
     Output : [FilePrefix : {GeneratedPrefix, <<>>},
               FileSuffix : {TestGoSuffix},
               CleanBeforeGenerate : BOOLEAN]]

InitGenerate ==
    /\ config \in Configs
    /\ disk \in Directories
    /\ allFiles \in SeqsUpTo(ScannedFiles, MaxFiles)
    /\ fileIdx = 0
    /\ allSpecs = <<>>
    /\ keyOrder = <<>> /\ specsByKey = <<>> /\ keyIdx = 0
    /\ written = <<>>
    /\ genErr = "nil"
    /\ gpc = "clean"
    /\ previous = NoRun
    /\ NoExtraction
    /\ NoCommand
    /\ cmdConfig = DefaultCommands
    /\ NotRun
    /\ pc = "generate"

\* Step 1, lines 51-60
CleanOutput ==
    /\ gpc = "clean"
    /\ disk' = IF config.Output.CleanBeforeGenerate /\ ~config.DryRun
               THEN cleanOutputDir(disk) ELSE disk
    /\ gpc' = "scan"
    /\ UNCHANGED <<config, allFiles, fileIdx, allSpecs, keyOrder, specsByKey,
                   keyIdx, written, genErr, previous, extractVars, genVars,
                   runVars, pc>>

\* Step 2, lines 62-79: with no file found Generate returns nil.
ScanFiles ==
    /\ gpc = "scan"
    /\ IF Len(allFiles) = 0
       THEN gpc' = "done" /\ fileIdx' = fileIdx
       ELSE gpc' = "files" /\ fileIdx' = 1
    /\ UNCHANGED <<config, disk, allFiles, allSpecs, keyOrder, specsByKey,
                   keyIdx, written, genErr, previous, extractVars, genVars,
                   runVars, pc>>

\* ProcessFile going on to the next file when Convert rejects a command.
ProcessFile_ContinueOnError ==
    /\ gpc = "files" /\ fileIdx <= Len(allFiles)
    /\ LET file == allFiles[fileIdx] IN
       IF ~file.readable
       THEN genErr' = "read" /\ gpc' = "done" /\ UNCHANGED <<fileIdx, allSpecs>>
       ELSE IF ~ParserFor(filepathExt(file.path)) \/ Len(file.testFiles) = 0
               \/ file.blocked
       THEN fileIdx' = fileIdx + 1 /\ UNCHANGED <<genErr, gpc, allSpecs>>
       ELSE /\ allSpecs' = allSpecs \o SpecsOf(file)
            /\ fileIdx' = fileIdx + 1
            /\ UNCHANGED <<genErr, gpc>>
    /\ UNCHANGED <<config, disk, allFiles, keyOrder, specsByKey, keyIdx,
                   written, previous, extractVars, genVars, runVars, pc>>

\* Step 3, lines 83-123: one turn of the loop over allFiles.
ProcessFile ==
    /\ gpc = "files" /\ fileIdx <= Len(allFiles)
    /\ LET file == allFiles[fileIdx] IN
       IF ~file.readable
       THEN genErr' = "read" /\ gpc' = "done" /\ UNCHANGED <<fileIdx, allSpecs>>
       ELSE IF ~ParserFor(filepathExt(file.path))
       THEN fileIdx' = fileIdx + 1 /\ UNCHANGED <<genErr, gpc, allSpecs>>
       ELSE IF Len(file.testFiles) = 0
       THEN fileIdx' = fileIdx + 1 /\ UNCHANGED <<genErr, gpc, allSpecs>>
       ELSE IF file.blocked
       THEN genErr' = "convert" /\ gpc' = "done"
            /\ UNCHANGED <<fileIdx, allSpecs>>
       ELSE /\ allSpecs' = allSpecs \o SpecsOf(file)
            /\ fileIdx' = fileIdx + 1
            /\ UNCHANGED <<genErr, gpc>>
    /\ UNCHANGED <<config, disk, allFiles, keyOrder, specsByKey, keyIdx,
                   written, previous, extractVars, genVars, runVars, pc>>

\* Step 4, lines 140-151, one specification at a time
RECURSIVE GroupByKey(_, _, _)
GroupByKey(rest, order, byKey) ==
    IF Len(rest) = 0 THEN [keyOrder |-> order, specsByKey |-> byKey]
    ELSE LET spec == rest[1]
             key == IF spec.TestFile # <<>> THEN spec.TestFile
                    ELSE spec.SourceFile
             seen == key \in DOMAIN byKey
         IN  GroupByKey(Tail(rest),
                        IF seen THEN order ELSE Append(order, key),
                        Put(byKey, key, Append(Get(byKey, key), spec)))

\* Lines 125-151: with no specification Generate returns nil; otherwise the
\* specifications are grouped by output key.
GroupSpecs ==
    /\ gpc = "files" /\ fileIdx > Len(allFiles)
    /\ IF Len(allSpecs) = 0
       THEN gpc' = "done" /\ UNCHANGED <<keyOrder, specsByKey>>
       ELSE LET g == GroupByKey(allSpecs, <<>>, <<>>) IN
            /\ keyOrder' = g.keyOrder
            /\ specsByKey' = g.specsByKey
            /\ gpc' = "mkdir"
    /\ UNCHANGED <<config, disk, allFiles, fileIdx, allSpecs, keyIdx, written,
                   genErr, previous, extractVars, genVars, runVars, pc>>

\* Step 5, lines 154-161
EnsureDirectory ==
    /\ gpc = "mkdir"
    /\ disk' = IF config.DryRun THEN disk ELSE [disk EXCEPT !.exists = TRUE]
    /\ keyIdx' = 1
    /\ gpc' = "write"
    /\ UNCHANGED <<config, allFiles, fileIdx, allSpecs, keyOrder, specsByKey,
                   written, genErr, previous, extractVars, genVars, runVars,
                   pc>>

\* Step 6, lines 164-196: one turn of the loop over keyOrder.
WriteOutput ==
    /\ gpc = "write" /\ keyIdx <= Len(keyOrder)
    /\ LET key == keyOrder[keyIdx]
           groupSpecs == specsByKey[key]
           isTestFile == groupSpecs[1].TestFile # <<>>
           outputFile == buildOutputFilename(key, isTestFile, config.Output)
       IN  IF config.DryRun
           THEN UNCHANGED <<disk, written>>
           ELSE /\ disk' = WriteFile(disk, outputFile, Rendered(groupSpecs))
                /\ written' = Append(written,
                                     [key |-> key, path |-> outputFile])
    /\ keyIdx' = keyIdx + 1
    /\ UNCHANGED <<config, allFiles, fileIdx, allSpecs, keyOrder, specsByKey,
                   genErr, gpc, previous, extractVars, genVars, runVars, pc>>

\* Step 7, lines 198-204
WriteSuite ==
    /\ gpc = "write" /\ keyIdx > Len(keyOrder)
    /\ disk' = writeSuiteFile(config, disk)
    /\ written' = IF disk' # disk
                  THEN Append(written, [key |-> <<>>, path |-> SuiteFile])
                  ELSE written
    /\ gpc' = "done"
    /\ UNCHANGED <<config, allFiles, fileIdx, allSpecs, keyOrder, specsByKey,
                   keyIdx, genErr, previous, extractVars, genVars, runVars,
                   pc>>

NextGenerate ==
    \/ CleanOutput
    \/ ScanFiles
    \/ ProcessFile
    \/ GroupSpecs
    \/ EnsureDirectory
    \/ WriteOutput
    \/ WriteSuite

SpecGenerate == InitGenerate /\ [][NextGenerate]_vars

\* C23: within one run of Generate no two distinct output keys (marker
\* names, or source paths for unmarked blocks) are written to the same
\* output path, so no generated file is overwritten by another.
C23_OwnOutputFile ==
    \A i, j \in DOMAIN written :
        (written[i].key # written[j].key /\ written[i].key # <<>>
         /\ written[j].key # <<>>)
            => written[i].path # written[j].path

\* C24: when DryRun is true no step of Generate changes the output
\* directory: it is not cleaned, not created, and neither a generated file
\* nor suite_test.go is written.
C24_DryRunWritesNothing == [][config.DryRun => disk' = disk]_vars

\* A dry run with clean_before_generate set has ended after its write loop
\* and suite step, the output directory still missing.
C24_Witness ==
    /\ config.DryRun /\ config.Output.CleanBeforeGenerate
    /\ gpc = "done" /\ genErr = "nil"
    /\ Len(keyOrder) > 1 /\ keyIdx > Len(keyOrder)
    /\ disk = NoDirectory

\* A step keeps the suite file it finds.
KeepsSuiteFile ==
    (SuiteFile \in DOMAIN disk.files) =>
        /\ SuiteFile \in DOMAIN disk'.files
        /\ disk'.files[SuiteFile] = disk.files[SuiteFile]

\* C25: a suite_test.go present in the output directory is neither removed
\* nor changed by any step of Generate, whatever the configuration and the
\* scanned files.
C25_SuiteFileKept == [][KeepsSuiteFile]_vars

\* The files whose processing makes Generate return an error: ones that
\* cannot be read and ones with a parser, tagged blocks and a rejected
\* command.
Fails(file) ==
    \/ ~file.readable
    \/ /\ ParserFor(filepathExt(file.path))
       /\ Len(file.testFiles) > 0
       /\ file.blocked

\* The files skipped without error.
Skipped(file) ==
    /\ file.readable
    /\ \/ ~ParserFor(filepathExt(file.path))
       \/ Len(file.testFiles) = 0

\* C26: a failure to read or convert a scanned file ends Generate with that
\* error and nothing written in the run, generated file or suite file; a
\* write is made only after every file has been processed without error;
\* and a readable file without a registered parser or without tagged
\* blocks raises no error.
C26_ErrorsBeforeWrites ==
    /\ genErr # "nil" => (gpc = "done" /\ written = <<>>)
    /\ written # <<>> =>
          (fileIdx > Len(allFiles) /\ \A i \in DOMAIN allFiles :
                                         ~Fails(allFiles[i]))
    /\ gpc = "done" =>
          LET failing == {i \in DOMAIN allFiles : Fails(allFiles[i])}
          IN  /\ genErr = "nil" <=> failing = {}
              /\ genErr = "read" <=>
                    (failing # {} /\ ~allFiles[FirstOf(failing)].readable)

\* A run has returned the error of a rejected command after skipping a file
\* without tagged blocks or without a parser, the directory already
\* cleaned.
C26_Witness ==
    /\ gpc = "done" /\ genErr = "convert"
    /\ fileIdx = 2 /\ Skipped(allFiles[1])
    /\ config.Output.CleanBeforeGenerate /\ ~config.DryRun
    /\ written = <<>>

\* C27: without retry and with an expected exit code other than 0, the
\* fragment's assertion passes only when the command exited with that code.
C27_PassOnlyOnExpectedExit ==
    (pc = "done" /\ retryCount = 0 /\ expectedExit # 0 /\ invoked = 1
     /\ verdict = "pass")
        => lastErr = expectedExit

\* With retry and an expected exit code other than 0: once an attempt has
\* ended with the expected code, a step runs no further attempt and takes
\* no further pause.
StopsOnExpectedExit ==
    (retryCount > 0 /\ expectedExit # 0 /\ invoked > 0
     /\ lastErr = expectedExit)
        => (invoked' = invoked /\ slept' = slept)

\* C28: for retry count > 0 and expected exit code E other than 0 the retry
\* loop exits early on success: as soon as an attempt exits with code E no
\* further attempt is made and no further pause is taken.
C28_EarlyExitOnExpectedCode == [][StopsOnExpectedExit]_vars

\* C29: every Content Unit the extractor emits with a non-empty Step Group
\* key has a non-empty Test Unit key.
C29_StepGroupInsideTestUnit ==
    \A i \in DOMAIN parsed.Blocks :
        parsed.Blocks[i].StepGroup # <<>> => parsed.Blocks[i].TestGroup # <<>>

\* ---------------------------------------------------------------------
\* The fragment's run with the deadline of its scope passing.

\* The deadline of the scope the fragment opened passes while the loop
\* runs or before the final assertion.
DeadlinePasses ==
    /\ pc \in {"looptest", "body", "check", "pause", "incr", "assert"}
    /\ DeadlineScopes(goCode) # {} /\ ~expired
    /\ expired' = TRUE
    /\ UNCHANGED <<docVars, genVars, attempt, lastErr, invoked, slept,
                   verdict, pc>>

NextDeadline ==
    \/ Generate
    \/ RunOnce
    \/ EnterLoop
    \/ LoopTest
    \/ Attempt
    \/ BreakOnSuccess
    \/ Pause
    \/ NoPause
    \/ NextAttempt
    \/ FinalAssert
    \/ DeadlinePasses

SpecDeadline == InitRun /\ [][NextDeadline]_vars

\* With a timeout and retry the fragment opens one deadline scope, before
\* the loop, and the attempts of the loop run under it.
OneScopeBeforeLoop ==
    (pc # "start" /\ retryCount > 0 /\ ~IsSentinelTimeout(timeout)
     /\ Loops(goCode) # {})
        => /\ Cardinality(DeadlineScopes(goCode)) = 1
           /\ \A d \in DeadlineScopes(goCode) : d < TheLoop(goCode)
           /\ \A i \in Invocations(goCode) :
                 (TheLoop(goCode) < i
                  /\ i < LoopEnd(goCode, TheLoop(goCode)))
                     => i \in CancellableInvocations(goCode)

\* Once the deadline has passed the loop takes no pause.
NoPauseAfterDeadline ==
    (retryCount > 0 /\ expired) => slept' = slept

\* C30: with a timeout and retry count > 0 the one deadline bounds the whole
\* retry loop, pauses included: every attempt runs under the scope opened
\* before the loop, and after the deadline has passed the loop takes no
\* further pause before the final assertion.
C30_DeadlineBoundsLoop ==
    []OneScopeBeforeLoop /\ [][NoPauseAfterDeadline]_vars

====
